---------------------------- MODULE Spec2Model ----------------------------
(***************************************************************************)
(* Simulated-annealing TSP solver of src/Task1b.py as a state machine.     *)
(*                                                                         *)
(* One call of TSPSimulatedAnnealingSolver.solve is a sequence of steps:   *)
(* the entry (shuffle, first evaluation), then one step per pass of the    *)
(* for-loop, the last of which also runs the code after the loop.          *)
(*                                                                         *)
(* Numbers.  Tour costs are fixed-point integers, Scale units per 1.0.     *)
(* Temperatures and schedule parameters are binary floats written          *)
(* [m |-> mantissa, e |-> exponent] for m * 2^e, exact for the small       *)
(* mantissas used here; the exponent range of an IEEE double is kept.      *)
(* The module-level random generator is either unseeded (every draw is a   *)
(* free choice) or seeded (a deterministic generator state).               *)
(***************************************************************************)
EXTENDS Integers, Sequences, FiniteSets, TLC

(* ------------------------------ bounds -------------------------------- *)

\* Largest max_iterations passed to solve.
MaxIter == 3

\* Fixed-point resolution of coordinates-derived costs: units per 1.0.
Scale == 1000

\* Largest coordinate of a city (coordinates are 0 .. MaxCoord).
MaxCoord == 4

\* Calls of solve on one solver in the runs that repeat a call.
MaxCalls == 2

\* The generous iteration budget of the end-to-end scenario.
GenerousBudget == 2000

\* Number of states of the seeded generator (seeds are 0 .. RngModulus-1).
RngModulus == 32

\* Significant bits a cost keeps: every distance and every running sum is
\* rounded to this many bits, as a double rounds to 53, so that the order
\* of a sum shows at the size of the costs used here.
MantissaBits == 9

(* ------------------------- program constants -------------------------- *)

\* rate ** iteration raises OverflowError from 2^FloatMaxExp on.
FloatMaxExp == 1024

\* Smallest positive double is 2^FloatMinExp; below it a result is 0.0.
FloatMinExp == -1074

\* math.exp(-x) is exactly 1.0 for 0 <= x <= 2^-ExpOneBits.
ExpOneBits == 54

\* math.exp(-x) is exactly 0.0 for x past 745.13; the model cuts at 745.
ExpUnderflow == 745

\* self.best_cost = float('inf'): a value no tour cost takes.
Infinity == -1

\* A local name that holds no value yet (iteration before the first pass).
Unbound == -1

\* The state of the generator when random.seed was never called.
NoSeed == -1

\* self.best_route = None.
None == <<-1>>

(* ------------------------------ helpers ------------------------------- *)

Min(a, b) == IF a < b THEN a ELSE b

Max(a, b) == IF a > b THEN a ELSE b

Abs(a) == IF a < 0 THEN 0 - a ELSE a

RECURSIVE Pow2(_)
Pow2(k) == IF k <= 0 THEN 1 ELSE 2 * Pow2(k - 1)

RECURSIVE IntPow(_, _)
IntPow(b, k) == IF k <= 0 THEN 1 ELSE b * IntPow(b, k - 1)

CeilDiv(a, b) == (a + b - 1) \div b

\* a <= b * 2^s for naturals a, b and any integer s, without leaving the
\* 32-bit range.
LeShift(a, b, s) ==
    IF s >= 0
    THEN IF s >= 31 THEN (a = 0 \/ b > 0) ELSE CeilDiv(a, Pow2(s)) <= b
    ELSE IF 0 - s >= 31 THEN a = 0 ELSE a <= b \div Pow2(0 - s)

\* floor(log2 m) for m >= 1.
RECURSIVE Log2(_)
Log2(m) == IF m <= 1 THEN 0 ELSE 1 + Log2(m \div 2)


(* ------------------------------ floats -------------------------------- *)

\* The element of a set of one element.
Only(S) == CHOOSE x \in S : TRUE

\* The float m * 2^e.
F(m, e) == [m |-> m, e |-> e]

FZero == F(0, 0)

\* floor(log2 |a|) of a non-zero float.
FKey(a) == a.e + Log2(Abs(a.m))

\* +-inf, as the float just past the largest finite double.
FInf(sign) == F(sign, FloatMaxExp)

\* a < b for positive floats.
FLtPos(a, b) ==
    IF FKey(a) # FKey(b)
    THEN FKey(a) < FKey(b)
    ELSE LET mn == Min(a.e, b.e)
         IN  a.m * Pow2(a.e - mn) < b.m * Pow2(b.e - mn)

FNeg(a) == F(0 - a.m, a.e)

\* a < b.
Below(a, b) ==
    IF a.m > 0 /\ b.m > 0 THEN FLtPos(a, b)
    ELSE IF a.m < 0 /\ b.m < 0 THEN FLtPos(FNeg(b), FNeg(a))
    ELSE (a.m < 0 /\ b.m >= 0) \/ (a.m = 0 /\ b.m > 0)

\* a < b, each operand evaluated once.
FLt(a, b) == Only({Below(x, y) : x \in {a}, y \in {b}})

\* A float result brought into the range of a double: zero below the
\* smallest subnormal, infinite from 2^FloatMaxExp on.
InRange(a) ==
    IF a.m = 0 THEN FZero
    ELSE IF FKey(a) >= FloatMaxExp THEN FInf(IF a.m > 0 THEN 1 ELSE -1)
    ELSE IF FKey(a) < FloatMinExp THEN FZero
    ELSE a

\* The float a brought into range, a evaluated once, as the operand of a
\* Python operator is.
FRange(a) == Only({InRange(v) : v \in {a}})

FMul(a, b) == FRange(F(a.m * b.m, a.e + b.e))

FMulInt(a, k) == FRange(F(a.m * k, a.e))

FSub(a, b) ==
    LET mn == Min(a.e, b.e)
    IN  FRange(F(a.m * Pow2(a.e - mn) - b.m * Pow2(b.e - mn), mn))

\* float ** int raises OverflowError instead of returning inf.
FPowOverflows(a, k) ==
    a.m # 0 /\ k > 0 /\ a.e * k + Log2(Abs(IntPow(a.m, k))) >= FloatMaxExp

FPow(a, k) == FRange(F(IntPow(a.m, k), a.e * k))

(* ----------------------------- distances ------------------------------ *)

\* floor(sqrt(x)) by bisection on lo <= r < hi.
RECURSIVE SqrtFloor(_, _, _)
SqrtFloor(x, lo, hi) ==
    IF hi - lo <= 1 THEN lo
    ELSE LET mid == (lo + hi) \div 2
         IN  IF mid * mid <= x THEN SqrtFloor(x, mid, hi)
             ELSE SqrtFloor(x, lo, mid)

\* math.sqrt, rounded to the nearest fixed-point unit.
SqrtRound(x) ==
    LET r == SqrtFloor(x, 0, 46340)
    IN  IF x > r * r + r THEN r + 1 ELSE r

\* 2^MantissaBits: the mantissas of the floats are below it.
MantissaRange == Pow2(MantissaBits)

\* The unit in the last place of the float nearest to x: the least power of
\* two, from ulp on, that leaves x below MantissaRange units.
RECURSIVE UlpFrom(_, _)
UlpFrom(x, ulp) ==
    IF x < ulp * MantissaRange THEN ulp ELSE UlpFrom(x, 2 * ulp)

\* A natural number rounded to MantissaBits significant bits, to nearest
\* and to even on a tie: what a float operation does to its exact result.
RoundFloat(x) ==
    LET ulp == UlpFrom(x, 1)
        q == x \div ulp
        rest == x % ulp
    IN  IF 2 * rest > ulp \/ (2 * rest = ulp /\ q % 2 = 1)
        THEN (q + 1) * ulp
        ELSE q * ulp

\* a + b on floats (line 77, total_distance += segment_distance).
FloatAdd(a, b) == RoundFloat(a + b)

\* math.sqrt of every squared distance two cities can have, computed once.
SqrtTable ==
    [x \in 0..(2 * MaxCoord * MaxCoord) |->
       RoundFloat(SqrtRound(x * Scale * Scale))]

\* distance_between: Euclidean distance of two cities, in cost units.
distance_between(city_a, city_b) ==
    LET dx == city_a[1] - city_b[1]
        dy == city_a[2] - city_b[2]
    IN  SqrtTable[dx * dx + dy * dy]

\* evaluate_tour_length: total_distance after the passes for positions
\* 0 .. positions-1 of the loop, each segment closing to position
\* (position + 1) % tour_size and each sum rounded as it is made.
RECURSIVE TourSum(_, _, _)
TourSum(tour, cs, positions) ==
    IF positions <= 0 THEN 0
    ELSE LET position == positions - 1
             current_idx == tour[position + 1]
             next_idx == tour[((position + 1) % Len(tour)) + 1]
         IN  FloatAdd(TourSum(tour, cs, position),
                      distance_between(cs[current_idx + 1], cs[next_idx + 1]))

evaluate_tour_length(tour, cs) == TourSum(tour, cs, Len(tour))

(* ---------------------------- neighbourhood --------------------------- *)

\* A Python slice bound brought into 0 .. n.
SliceBound(i, n) == IF i < 0 THEN Max(i + n, 0) ELSE Min(i, n)

\* tour[lo:hi]
PySlice(tour, lo, hi) ==
    LET a == SliceBound(lo, Len(tour))
        b == SliceBound(hi, Len(tour))
    IN  IF a >= b THEN << >> ELSE SubSeq(tour, a + 1, b)

\* seq[::-1]
Reversed(seq) == [p \in 1..Len(seq) |-> seq[Len(seq) + 1 - p]]

\* The move with the tail taken from segment_end instead of segment_end+1.
TwoOptOffByOne(tour, segment_start, segment_end) ==
    PySlice(tour, 0, segment_start)
      \o Reversed(PySlice(tour, segment_start, segment_end + 1))
      \o PySlice(tour, segment_end, Len(tour))

\* The move with the reversed slice ending before segment_end.
TwoOptHalfOpen(tour, segment_start, segment_end) ==
    PySlice(tour, 0, segment_start)
      \o Reversed(PySlice(tour, segment_start, segment_end))
      \o PySlice(tour, segment_end, Len(tour))

generate_two_opt_neighbor(tour, segment_start, segment_end) ==
    PySlice(tour, 0, segment_start)
      \o Reversed(PySlice(tour, segment_start, segment_end + 1))
      \o PySlice(tour, segment_end + 1, Len(tour))

\* A sequence that holds each of 0 .. n-1 exactly once.
IsPermutation(tour, n) ==
    /\ Len(tour) = n
    /\ \A c \in 0..(n - 1) : \E p \in 1..n : tour[p] = c
    /\ \A p, q \in 1..n : tour[p] = tour[q] => p = q

(* -------------------------- cooling schedules ------------------------- *)

ExponentialSchedule(initial, rate) ==
    [kind |-> "exponential", initial |-> initial, step |-> rate]

LinearSchedule(initial, decrement) ==
    [kind |-> "linear", initial |-> initial, step |-> decrement]

\* ExponentialSchedule.temperature_at_iteration raises OverflowError when
\* self.rate ** iteration leaves the range of a double.
TemperatureRaises(sched, k) ==
    sched.kind = "exponential" /\ FPowOverflows(sched.step, k)

\* The linear schedule without its floor at zero.
TemperatureUnfloored(sched, k) ==
    IF sched.kind = "exponential"
    THEN FMul(sched.initial, FPow(sched.step, k))
    ELSE FSub(sched.initial, FMulInt(sched.step, k))

\* temperature_at_iteration of either schedule; max(0, t) keeps 0 unless
\* t > 0.
temperature_at_iteration(sched, k) ==
    IF sched.kind = "exponential"
    THEN FMul(sched.initial, FPow(sched.step, k))
    ELSE LET t == FSub(sched.initial, FMulInt(sched.step, k))
         IN  IF FLt(FZero, t) THEN t ELSE FZero

(* -------------------------- random generator -------------------------- *)

\* One draw of an integer below n: a record [value, rng] for every outcome
\* the generator in state r can produce.  Unseeded, any value; seeded, the
\* one value the state determines.
RandBelow(r, n) ==
    IF r = NoSeed
    THEN {[value |-> v, rng |-> NoSeed] : v \in 0..(n - 1)}
    ELSE {[value |-> (r * n) \div RngModulus,
           rng |-> (5 * r + 3) % RngModulus]}

Swap(x, i, j) == [x EXCEPT ![i + 1] = x[j + 1], ![j + 1] = x[i + 1]]

\* random.shuffle: for i from len-1 down to 1, swap x[i] with x[j] for a
\* drawn j <= i.  The set of [tour, rng] outcomes.
RECURSIVE ShuffleFrom(_, _, _)
ShuffleFrom(x, i, r) ==
    IF i < 1 THEN {[tour |-> x, rng |-> r]}
    ELSE UNION {ShuffleFrom(Swap(x, i, d.value), i - 1, d.rng) :
                  d \in RandBelow(r, i + 1)}

\* list(range(n))
Range(n) == [p \in 1..n |-> p - 1]

Shuffle(x, r) == ShuffleFrom(x, Len(x) - 1, r)

(* ------------------------ acceptance criterion ------------------------ *)

\* random.random() is a multiple of 1/Resolution in [0, 1); an acceptance
\* probability is a multiple of 1/Resolution in [0, 1].  ExpLevels[k] is
\* ln(Resolution / k) in 1/256ths: exp(-x) >= k / Resolution iff
\* x <= ExpLevels[k] / 256.
ExpLevels == <<532, 354, 251, 177, 120, 73, 34>>

Resolution == Len(ExpLevels) + 1

\* math.exp that stays below 1.0 also at 0.
ExpNegBelowOne(energy_increase, temperature) == Resolution - 1

\* math.exp(-energy_increase / temperature) for energy_increase >= 0 and
\* temperature > 0, as a multiple of 1/Resolution.  It is exactly 1.0 when
\* the quotient is at most 2^-ExpOneBits, exactly 0.0 when the quotient is
\* past ExpUnderflow, and strictly between otherwise (never rounded to 0 or
\* to 1 there: a double tells them apart).
ExpNeg(energy_increase, temperature) ==
    LET den == Scale * temperature.m
    IN  IF LeShift(energy_increase, den, temperature.e - ExpOneBits)
        THEN Resolution
        ELSE IF ~LeShift(energy_increase, ExpUnderflow * den, temperature.e)
        THEN 0
        ELSE LET n == Cardinality({k \in 1..Len(ExpLevels) :
                        LeShift(energy_increase * 256, ExpLevels[k] * den,
                                temperature.e)})
             IN  Max(1, Min(Resolution - 1, n))

\* The divisors with the division done at any temperature.
MetropolisDivisorsUnguarded(current_cost, candidate_cost, temperature) ==
    IF candidate_cost < current_cost THEN {} ELSE {temperature}

\* The temperatures metropolis_acceptance divides by in one call (lines
\* 163-173): none after the early return, none in the else branch.
MetropolisDivisors(current_cost, candidate_cost, temperature) ==
    IF candidate_cost < current_cost THEN {}
    ELSE IF FLt(FZero, temperature) THEN {temperature}
    ELSE {}

\* The probability with 1.0 where the temperature is not positive.
AcceptanceProbHot(current_cost, candidate_cost, temperature) ==
    IF FLt(FZero, temperature)
    THEN ExpNeg(candidate_cost - current_cost, temperature)
    ELSE Resolution

\* acceptance_prob of metropolis_acceptance (lines 166-173).
AcceptanceProb(current_cost, candidate_cost, temperature) ==
    IF FLt(FZero, temperature)
    THEN ExpNeg(candidate_cost - current_cost, temperature)
    ELSE 0

\* The criterion without the early return for an improving candidate.
MetropolisNoShortcut(current_cost, candidate_cost, temperature, r) ==
    {[accept |->
        d.value < AcceptanceProb(current_cost, candidate_cost, temperature),
      rng |-> d.rng] : d \in RandBelow(r, Resolution)}

\* The criterion accepting a draw equal to the probability.
MetropolisInclusive(current_cost, candidate_cost, temperature, r) ==
    IF candidate_cost < current_cost
    THEN {[accept |-> TRUE, rng |-> r]}
    ELSE {[accept |->
             d.value <= AcceptanceProb(current_cost, candidate_cost,
                                       temperature),
           rng |-> d.rng] : d \in RandBelow(r, Resolution)}

\* metropolis_acceptance: the set of [accept, rng] outcomes.  An improving
\* candidate is accepted without a draw.
metropolis_acceptance(current_cost, candidate_cost, temperature, r) ==
    IF candidate_cost < current_cost
    THEN {[accept |-> TRUE, rng |-> r]}
    ELSE {[accept |->
             d.value < AcceptanceProb(current_cost, candidate_cost, temperature),
           rng |-> d.rng] : d \in RandBelow(r, Resolution)}

(* ------------------------------- inputs ------------------------------- *)

\* City lists handed to the constructor: none, one, two, a 3-4-5 triangle,
\* a triangle with sides 1, sqrt(13) and sqrt(18), and the unit square
\* (0,0), (0,1), (1,1), (1,0).
UnitSquare == << <<0, 0>>, <<0, 1>>, <<1, 1>>, <<1, 0>> >>

CityLists ==
    { << >>,
      << <<1, 1>> >>,
      << <<0, 0>>, <<2, 0>> >>,
      << <<0, 0>>, <<3, 0>>, <<0, 4>> >>,
      << <<0, 0>>, <<0, 1>>, <<3, 3>> >>,
      UnitSquare }

\* Schedules handed to solve: cooling to the floor, starting at or below
\* zero, halving, alternating in sign, and overflowing a double.
Schedules ==
    { LinearSchedule(F(2, 0), F(1, 0)),
      LinearSchedule(F(0, 0), F(1, 0)),
      ExponentialSchedule(F(1, 0), F(1, -1)),
      ExponentialSchedule(F(-1, 0), F(1, -1)),
      ExponentialSchedule(F(1, 0), F(-1, 1)),
      ExponentialSchedule(F(1, 0), F(1, 512)) }

\* min_temperature: about the default 1e-8 (2^-27), 4.0, and -4.0.
MinTemperatures == { F(1, -27), F(4, 0), F(-4, 0) }

\* max_iterations.
IterationCounts == 0..MaxIter

(* ------------------------------- state -------------------------------- *)

VARIABLES
    cities,               \* self.cities
    rng,                  \* state of the module-level generator
    seed,                 \* the seed it was last given, NoSeed if none
    callsLeft,            \* calls of solve the caller still makes
    pc,                   \* "idle", "loop", "returned", "raised"
    error,                \* the exception raised, "none" if none
    schedule,             \* arguments of the running / last call
    max_iterations,
    min_temperature,
    current_tour,         \* locals of solve
    current_distance,
    best_tour,
    best_distance,
    iteration,
    neighbor_tour,
    best_route,           \* fields of the solver
    best_cost,
    iterations_performed,
    result,               \* the returned pair, << >> while there is none
    phase,                \* "Running", "Converged", "Exhausted" (history)
    executed,             \* passes of this call that went past the
                          \* temperature check (history)
    prev,                 \* outcomes of the earlier calls (history)
    call,                 \* the last call of a function on its own: its
                          \* name, arguments and outcome
    heap,                 \* the list objects there are, by identity
    refs,                 \* the list object each name of solve is bound to
    service_centers_count, \* ServiceCenterPlanner.service_centers_count
    search,               \* the locals of the running search of Task6.py
                          \* and what the searches before it returned
    finder                \* the locals of PathFinder.find_disjoint_paths

vars ==
    << cities, rng, seed, callsLeft, pc, error, schedule, max_iterations,
       min_temperature, current_tour, current_distance, best_tour,
       best_distance, iteration, neighbor_tour, best_route, best_cost,
       iterations_performed, result, phase, executed, prev,
       call, heap, refs, service_centers_count, search, finder >>

\* The state of the solver, its caller and the generator.
solverVars ==
    << cities, rng, seed, callsLeft, pc, error, schedule, max_iterations,
       min_temperature, current_tour, current_distance, best_tour,
       best_distance, iteration, neighbor_tour, best_route, best_cost,
       iterations_performed, result, phase, executed, prev >>

\* What the solver's steps leave alone.
callVars == << call, heap, refs, service_centers_count, search, finder >>

\* No function was called on its own, no list object is tracked and the
\* planner is fresh (Task3.py line 35).
NoCalls ==
    /\ call = [op |-> "none"]
    /\ heap = << >>
    /\ refs = << >>
    /\ service_centers_count = 0
    /\ search = [op |-> "none"]
    /\ finder = [stage |-> "idle"]

num_cities == Len(cities)

\* What a finished call leaves behind.
Outcome ==
    [pc |-> pc, error |-> error, result |-> result, best_route |-> best_route,
     best_cost |-> best_cost, iterations_performed |-> iterations_performed,
     rng |-> rng]

\* __init__ (lines 186-191), before any call of solve.
Constructed ==
    /\ cities \in CityLists
    /\ pc = "idle"
    /\ error = "none"
    /\ schedule = LinearSchedule(FZero, FZero)
    /\ max_iterations = 0
    /\ min_temperature = FZero
    /\ current_tour = None
    /\ current_distance = 0
    /\ best_tour = None
    /\ best_distance = 0
    /\ iteration = Unbound
    /\ neighbor_tour = None
    /\ best_route = None
    /\ best_cost = Infinity
    /\ iterations_performed = 0
    /\ result = << >>
    /\ phase = "Idle"
    /\ executed = 0
    /\ prev = << >>

\* The generator was never seeded; solve is called once.
Init ==
    /\ Constructed
    /\ NoCalls
    /\ rng = NoSeed
    /\ seed = NoSeed
    /\ callsLeft = 1

(* ------------------------------- solve -------------------------------- *)

\* A start from the route the solver already holds, when it holds one.
InitialToursWarm(r) ==
    IF best_route # None
    THEN {[tour |-> best_route, rng |-> r]}
    ELSE Shuffle(Range(num_cities), r)

\* Lines 213-214 with the generator in state r: the [tour, rng] outcomes
\* of shuffling list(range(self.num_cities)).
InitialTours(r) == Shuffle(Range(num_cities), r)

\* Lines 213-218: a shuffled tour, its length, and the best so far a copy
\* of it.
Enter(sched, maxit, mint, r) ==
    \E s \in InitialTours(r) :
        /\ rng' = s.rng
        /\ current_tour' = s.tour
        /\ current_distance' = evaluate_tour_length(s.tour, cities)
        /\ best_tour' = s.tour
        /\ best_distance' = evaluate_tour_length(s.tour, cities)
        /\ schedule' = sched
        /\ max_iterations' = maxit
        /\ min_temperature' = mint
        /\ iteration' = Unbound
        /\ neighbor_tour' = None
        /\ pc' = "loop"
        /\ error' = "none"
        /\ result' = << >>
        /\ phase' = "Running"
        /\ executed' = 0
        /\ callsLeft' = callsLeft - 1
        /\ UNCHANGED << cities, seed, best_route, best_cost,
                        iterations_performed >>
        /\ UNCHANGED callVars

\* The caller calls solve on the fresh solver.
Solve ==
    /\ pc = "idle"
    /\ callsLeft > 0
    /\ \E sched \in Schedules, maxit \in IterationCounts,
          mint \in MinTemperatures : Enter(sched, maxit, mint, rng)
    /\ UNCHANGED prev

\* The value the for-loop gives iteration next.
NextIteration == IF iteration = Unbound THEN 0 ELSE iteration + 1

\* A loop over range(max_iterations + 1).
HasNextOffByOne == NextIteration <= max_iterations

\* Line 221: range(max_iterations) has another value.
HasNext == NextIteration < max_iterations

\* The loop has another pass to make.
InLoop == pc = "loop" /\ HasNext

Temperature == temperature_at_iteration(schedule, NextIteration)

\* The pass gets past lines 223-227.
Running ==
    /\ InLoop
    /\ ~TemperatureRaises(schedule, NextIteration)
    /\ ~FLt(Temperature, min_temperature)

\* Lines 253-257 with the fields keeping the lower of the old and the new
\* best cost.
AfterLoopKeepsLower(k) ==
    /\ best_route' = IF best_cost # Infinity /\ best_cost <= best_distance
                      THEN best_route ELSE best_tour
    /\ best_cost' = IF best_cost # Infinity /\ best_cost <= best_distance
                     THEN best_cost ELSE best_distance
    /\ IF k = Unbound
       THEN /\ pc' = "raised"
            /\ error' = "UnboundLocalError"
            /\ UNCHANGED << iterations_performed, result >>
       ELSE /\ iterations_performed' = k + 1
            /\ result' = << best_tour, best_distance >>
            /\ pc' = "returned"
            /\ UNCHANGED error

\* Lines 253-257 as if iteration were bound before the loop: a call whose
\* loop body never ran returns, with no iterations counted.
AfterLoopCountsFromZero(k) ==
    /\ best_route' = best_tour
    /\ best_cost' = best_distance
    /\ iterations_performed' = IF k = Unbound THEN 0 ELSE k + 1
    /\ result' = << best_tour, best_distance >>
    /\ pc' = "returned"
    /\ UNCHANGED error

\* Lines 253-257 with iteration holding k (Unbound when the loop body never
\* ran: line 255 then raises UnboundLocalError after lines 253-254).
AfterLoop(k) ==
    /\ best_route' = best_tour
    /\ best_cost' = best_distance
    /\ IF k = Unbound
       THEN /\ pc' = "raised"
            /\ error' = "UnboundLocalError"
            /\ UNCHANGED << iterations_performed, result >>
       ELSE /\ iterations_performed' = k + 1
            /\ result' = << best_tour, best_distance >>
            /\ pc' = "returned"
            /\ UNCHANGED error

\* range(max_iterations) is used up.
LoopExhausted ==
    /\ pc = "loop"
    /\ ~HasNext
    /\ phase' = "Exhausted"
    /\ AfterLoop(iteration)
    /\ UNCHANGED << cities, rng, seed, callsLeft, schedule, max_iterations,
                    min_temperature, current_tour, current_distance,
                    best_tour, best_distance, iteration, neighbor_tour,
                    executed, prev >>
    /\ UNCHANGED callVars

\* Lines 223-227 with continue in place of break.
IterConvergeContinue ==
    /\ InLoop
    /\ ~TemperatureRaises(schedule, NextIteration)
    /\ FLt(Temperature, min_temperature)
    /\ iteration' = NextIteration
    /\ UNCHANGED << cities, rng, seed, callsLeft, pc, error, schedule,
                    max_iterations, min_temperature, current_tour,
                    current_distance, best_tour, best_distance, neighbor_tour,
                    best_route, best_cost, iterations_performed, result,
                    phase, executed, prev >>
    /\ UNCHANGED callVars

\* Lines 223-227: the temperature is below min_temperature, break.
IterConverge ==
    /\ InLoop
    /\ ~TemperatureRaises(schedule, NextIteration)
    /\ FLt(Temperature, min_temperature)
    /\ iteration' = NextIteration
    /\ phase' = "Converged"
    /\ AfterLoop(NextIteration)
    /\ UNCHANGED << cities, rng, seed, callsLeft, schedule, max_iterations,
                    min_temperature, current_tour, current_distance,
                    best_tour, best_distance, neighbor_tour, executed, prev >>
    /\ UNCHANGED callVars

\* Line 223: the schedule raises.
IterScheduleRaises ==
    /\ InLoop
    /\ TemperatureRaises(schedule, NextIteration)
    /\ iteration' = NextIteration
    /\ pc' = "raised"
    /\ error' = "OverflowError"
    /\ phase' = "Failed"
    /\ UNCHANGED << cities, rng, seed, callsLeft, schedule, max_iterations,
                    min_temperature, current_tour, current_distance,
                    best_tour, best_distance, neighbor_tour, best_route,
                    best_cost, iterations_performed, result, executed, prev >>
    /\ UNCHANGED callVars

\* Line 230: random.randint(0, -1) raises ValueError.
IterRandintRaises ==
    /\ Running
    /\ num_cities < 1
    /\ iteration' = NextIteration
    /\ executed' = executed + 1
    /\ pc' = "raised"
    /\ error' = "ValueError"
    /\ phase' = "Failed"
    /\ UNCHANGED << cities, rng, seed, callsLeft, schedule, max_iterations,
                    min_temperature, current_tour, current_distance,
                    best_tour, best_distance, neighbor_tour, best_route,
                    best_cost, iterations_performed, result, prev >>
    /\ UNCHANGED callVars

\* Lines 230-237 with equal indices treated as an error.
IterSkipRaises ==
    /\ Running
    /\ num_cities >= 1
    /\ \E d1 \in RandBelow(rng, num_cities) :
         \E d2 \in RandBelow(d1.rng, num_cities) :
            /\ d1.value = d2.value
            /\ rng' = d2.rng
    /\ iteration' = NextIteration
    /\ executed' = executed + 1
    /\ pc' = "raised"
    /\ error' = "ValueError"
    /\ phase' = "Failed"
    /\ UNCHANGED << cities, seed, callsLeft, schedule,
                    max_iterations, min_temperature, current_tour,
                    current_distance, best_tour, best_distance, neighbor_tour,
                    best_route, best_cost, iterations_performed, result,
                    prev >>
    /\ UNCHANGED callVars

\* Lines 230-237: the two indices are equal, continue.
IterSkip ==
    /\ Running
    /\ num_cities >= 1
    /\ \E d1 \in RandBelow(rng, num_cities) :
         \E d2 \in RandBelow(d1.rng, num_cities) :
            /\ d1.value = d2.value
            /\ rng' = d2.rng
    /\ iteration' = NextIteration
    /\ executed' = executed + 1
    /\ UNCHANGED << cities, seed, callsLeft, pc, error, schedule,
                    max_iterations, min_temperature, current_tour,
                    current_distance, best_tour, best_distance, neighbor_tour,
                    best_route, best_cost, iterations_performed, result,
                    phase, prev >>
    /\ UNCHANGED callVars

\* The best replaced also by a candidate of equal cost.
TrackBestOnTie(candidate, candidate_distance) ==
    IF candidate_distance <= best_distance
    THEN [tour |-> candidate, distance |-> candidate_distance]
    ELSE [tour |-> best_tour, distance |-> best_distance]

\* The best never replaced after the entry.
TrackBestNever(candidate, candidate_distance) ==
    [tour |-> best_tour, distance |-> best_distance]

\* The best tour replaced while its recorded cost is kept.
TrackBestStaleCost(candidate, candidate_distance) ==
    IF candidate_distance < best_distance
    THEN [tour |-> candidate, distance |-> best_distance]
    ELSE [tour |-> best_tour, distance |-> best_distance]

\* The best replaced by every accepted candidate.
TrackBestAlways(candidate, candidate_distance) ==
    [tour |-> candidate, distance |-> candidate_distance]

\* The comparison of line 249 turned round.
TrackBestInverted(candidate, candidate_distance) ==
    IF candidate_distance > best_distance
    THEN [tour |-> candidate, distance |-> candidate_distance]
    ELSE [tour |-> best_tour, distance |-> best_distance]

\* Lines 249-251: the [tour, distance] recorded as best once the candidate
\* has become the current tour.
TrackBest(candidate, candidate_distance) ==
    IF candidate_distance < best_distance
    THEN [tour |-> candidate, distance |-> candidate_distance]
    ELSE [tour |-> best_tour, distance |-> best_distance]

\* Lines 230-251 with distinct indices: the neighbour is generated and
\* evaluated, and accepted or not.
IterMove(accepted) ==
    /\ Running
    /\ num_cities >= 1
    /\ \E d1 \in RandBelow(rng, num_cities) :
         \E d2 \in RandBelow(d1.rng, num_cities) :
            LET idx1 == Min(d1.value, d2.value)
                idx2 == Max(d1.value, d2.value)
                neighbor == generate_two_opt_neighbor(current_tour, idx1, idx2)
                neighbor_distance == evaluate_tour_length(neighbor, cities)
            IN  /\ d1.value # d2.value
                /\ neighbor_tour' = neighbor
                /\ \E m \in metropolis_acceptance(current_distance,
                                neighbor_distance, Temperature, d2.rng) :
                      /\ m.accept = accepted
                      /\ rng' = m.rng
                /\ IF accepted
                   THEN /\ current_tour' = neighbor
                        /\ current_distance' = neighbor_distance
                        /\ best_tour' = TrackBest(neighbor, neighbor_distance).tour
                        /\ best_distance' =
                              TrackBest(neighbor, neighbor_distance).distance
                   ELSE UNCHANGED << current_tour, current_distance,
                                     best_tour, best_distance >>
    /\ iteration' = NextIteration
    /\ executed' = executed + 1
    /\ UNCHANGED << cities, seed, callsLeft, pc, error, schedule,
                    max_iterations, min_temperature, best_route, best_cost,
                    iterations_performed, result, phase, prev >>
    /\ UNCHANGED callVars

IterAccept == IterMove(TRUE)

IterReject == IterMove(FALSE)

Next ==
    \/ Solve
    \/ IterSkip
    \/ IterAccept
    \/ IterReject
    \/ IterConverge
    \/ IterScheduleRaises
    \/ IterRandintRaises
    \/ LoopExhausted

Spec == Init /\ [][Next]_vars

(* ---------------------------- seeded runs ----------------------------- *)

\* random.seed(s) before the solver is built (line 270); the caller then
\* calls solve up to MaxCalls times.
InitSeeded ==
    /\ Constructed
    /\ NoCalls
    /\ rng \in 0..(RngModulus - 1)
    /\ seed = rng
    /\ callsLeft = MaxCalls

\* The caller seeds the generator with the same seed again and calls solve
\* on the same solver with the same arguments.
SolveAgain ==
    /\ pc \in {"returned", "raised"}
    /\ callsLeft > 0
    /\ seed # NoSeed
    /\ prev' = Append(prev, Outcome)
    /\ Enter(schedule, max_iterations, min_temperature, seed)

NextSeeded == Next \/ SolveAgain

SpecSeeded == InitSeeded /\ [][NextSeeded]_vars

(* ----------------------- the unit-square scenario ---------------------- *)

\* Schedules of either kind that cool below 2^-27 within the budget.
CoolingSchedules ==
    { LinearSchedule(F(2, 0), F(1, 0)),
      ExponentialSchedule(F(1, 0), F(1, -1)) }

InitSquare ==
    /\ Constructed
    /\ NoCalls
    /\ cities = UnitSquare
    /\ rng = NoSeed
    /\ seed = NoSeed
    /\ callsLeft = 1

\* solve(schedule, max_iterations = GenerousBudget) with min_temperature
\* 2^-27.
SolveGenerous ==
    /\ pc = "idle"
    /\ callsLeft > 0
    /\ \E sched \in CoolingSchedules :
          Enter(sched, GenerousBudget, F(1, -27), rng)
    /\ UNCHANGED prev

\* The steps a call with this budget takes: it converges before the budget
\* is used up and nothing raises.
NextSquare ==
    \/ SolveGenerous
    \/ IterConverge
    \/ IterSkip
    \/ IterAccept
    \/ IterReject

SpecSquare == InitSquare /\ [][NextSquare]_vars

(* ------------------------------- claims ------------------------------- *)

\* A call of solve has started on this solver (it runs, returned or raised).
InSolve == pc \in {"loop", "returned", "raised"}

\* C1: in every state of solve on N >= 1 cities the current tour, the
\* candidate last produced by generate_two_opt_neighbor and the best tour
\* are permutations of 0 .. N-1: length N, no index twice, none missing.
C1_ToursArePermutations ==
    (InSolve /\ num_cities >= 1) =>
        /\ IsPermutation(current_tour, num_cities)
        /\ IsPermutation(best_tour, num_cities)
        /\ neighbor_tour # None => IsPermutation(neighbor_tour, num_cities)

\* A candidate on four cities was accepted after the best was recorded.
C1_Witness ==
    /\ pc = "loop"
    /\ num_cities = 4
    /\ neighbor_tour # None
    /\ current_tour = neighbor_tour
    /\ best_tour # current_tour

\* C2: in every state of solve, and in the returned pair, each recorded
\* cost is the length evaluate_tour_length gives for its tour.
C2_CostsInStep ==
    InSolve =>
        /\ current_distance = evaluate_tour_length(current_tour, cities)
        /\ best_distance = evaluate_tour_length(best_tour, cities)
        /\ pc = "returned" =>
              /\ Len(result) = 2
              /\ result[2] = evaluate_tour_length(result[1], cities)
              /\ best_cost = evaluate_tour_length(best_route, cities)

\* A call returned a best tour that is shorter than the tour it ended on.
C2_Witness ==
    /\ pc = "returned"
    /\ num_cities = 4
    /\ best_distance < current_distance
    /\ result = << best_tour, best_distance >>

\* C3: no step of a running call raises the recorded best cost.
C3_BestNeverIncreases ==
    [][pc = "loop" => best_distance' <= best_distance]_vars

\* A pass moved the current tour to a longer one and the best stayed below
\* it: the step on which the best would rise if it followed the current.
C3_Witness ==
    /\ pc = "loop"
    /\ num_cities = 4
    /\ executed >= 2
    /\ current_tour = neighbor_tour
    /\ best_distance < current_distance

\* The call is over.
SolveEnded == pc \in {"returned", "raised"}

\* The schedule gives, for every iteration below max_iterations, a
\* temperature that is not below min_temperature.
NeverBelow ==
    \A k \in 0..(max_iterations - 1) :
        /\ ~TemperatureRaises(schedule, k)
        /\ ~FLt(temperature_at_iteration(schedule, k), min_temperature)

\* C4 as claimed: for N >= 1, max_iterations >= 1 and any schedule, a call
\* that is over has returned (best_tour, best_cost) after at most
\* max_iterations passes, and after exactly max_iterations passes when the
\* temperature is never below min_temperature.
C4_AlwaysReturns ==
    (num_cities >= 1 /\ max_iterations >= 1 /\ SolveEnded) =>
        /\ pc = "returned"
        /\ executed <= max_iterations
        /\ result = << best_tour, best_distance >>
        /\ NeverBelow => (phase = "Exhausted" /\ executed = max_iterations)

\* C4 amended: for N >= 1 and max_iterations >= 1 every call ends, after at
\* most max_iterations passes: a running call always has a step to take,
\* every step of it ends the call or moves iteration up, and iteration
\* stays below max_iterations.  It ends by raising only when the schedule
\* raises OverflowError at the iteration it was asked for, and otherwise
\* returns (best_tour, best_cost), Converged or Exhausted, having run
\* exactly max_iterations passes when the temperature is never below
\* min_temperature.
C4_EndsWithinBudget ==
    /\ []((num_cities >= 1 /\ max_iterations >= 1 /\ InSolve) =>
            /\ executed <= max_iterations
            /\ iteration < max_iterations
            /\ pc = "loop" => ENABLED Next
            /\ pc = "raised" =>
                  /\ error = "OverflowError"
                  /\ TemperatureRaises(schedule, iteration)
            /\ pc = "returned" =>
                  /\ phase \in {"Converged", "Exhausted"}
                  /\ result = << best_tour, best_distance >>
                  /\ NeverBelow =>
                        (phase = "Exhausted" /\ executed = max_iterations))
    /\ [][(pc = "loop" /\ num_cities >= 1 /\ max_iterations >= 1) =>
            (SolveEnded' \/ iteration' > iteration)]_vars

\* A call on four cities used up its whole budget and returned.
C4_Witness ==
    /\ pc = "returned"
    /\ num_cities = 4
    /\ phase = "Exhausted"
    /\ max_iterations = MaxIter
    /\ executed = max_iterations
    /\ NeverBelow

\* C5: a call repeated after seeding the generator with the same seed, with
\* the same cities, schedule, max_iterations and min_temperature, ends as
\* every earlier one did: the same returned pair, the same fields of the
\* solver (iteration count included) and the generator in the same state,
\* so the same draws were consumed.
C5_SameSeedSameRun ==
    SolveEnded => \A i \in 1..Len(prev) : prev[i] = Outcome

\* A repeated call on four cities returned after passes that drew numbers.
C5_Witness ==
    /\ pc = "returned"
    /\ num_cities = 4
    /\ Len(prev) >= 1
    /\ prev[1].pc = "returned"
    /\ executed >= 2
    /\ current_tour # best_tour

\* C6 as claimed: when solve returns, iterations_performed is the number of
\* passes executed: k when it converged at iteration k, max_iterations when
\* the budget was used up.
C6_CountsExecutedPasses ==
    pc = "returned" =>
        /\ iterations_performed = executed
        /\ phase = "Converged" => iterations_performed = iteration
        /\ phase = "Exhausted" => iterations_performed = max_iterations

\* The cost is within 0.05 of the optimum 4.0 of the unit square.
NearOptimum(cost) == 100 * Abs(cost - 4 * Scale) <= 5 * Scale

\* The length of a tour of the unit square that crosses it twice.
CrossingCost == evaluate_tour_length(<<0, 2, 1, 3>>, UnitSquare)

C8_OneCityNoIterations ==
    (num_cities = 1 /\ pc = "returned") =>
        /\ result = << <<0>>, 0 >>
        /\ executed = 0
        /\ iterations_performed = 0

\* C9 as claimed: with no city solve never returns a result (here for the
\* schedules whose initial temperature is positive).
C9_EmptyNeverReturns ==
    ~(num_cities = 0 /\ pc = "returned" /\ FLt(FZero, schedule.initial))

\* C10 as claimed: a call driven by a schedule whose initial temperature is
\* <= 0 does not return a best tour and cost.
C10_BadScheduleRejected ==
    pc = "returned" => FLt(FZero, schedule.initial)

(* ------------------- the functions called on their own ------------------ *)

\* Tours handed to a function on its own have 0 .. MaxTour elements.
MaxTour == 5

\* The permutations of 0 .. n-1 as sequences.
ToursOfLength(n) ==
    {t \in [1..n -> 0..(n - 1)] : \A p, q \in 1..n : p # q => t[p] # t[q]}

Tours == UNION {ToursOfLength(n) : n \in 0..MaxTour}

\* Cut points, from below -N to past N for the longest tour.
CutPoints == (0 - MaxTour - 1)..(MaxTour + 1)

\* The solver is built and left alone: nothing has called solve.
InitCalls ==
    /\ Constructed
    /\ cities = UnitSquare
    /\ rng = NoSeed
    /\ seed = NoSeed
    /\ callsLeft = 0
    /\ NoCalls

\* One function is called, once, and the call leaves everything but its
\* record alone.
OnlyCall ==
    /\ call.op = "none"
    /\ UNCHANGED << solverVars, heap, refs, service_centers_count, search,
                 finder >>

\* generate_two_opt_neighbor(tour, segment_start, segment_end), lines
\* 103-108: slices of a list take any integer bounds, nothing is raised.
CallTwoOpt ==
    /\ OnlyCall
    /\ \E tour \in Tours, segment_start \in CutPoints,
          segment_end \in CutPoints :
          call' = [op |-> "generate_two_opt_neighbor",
                   tour |-> tour,
                   segment_start |-> segment_start,
                   segment_end |-> segment_end,
                   raised |-> "none",
                   result |-> generate_two_opt_neighbor(tour, segment_start,
                                                        segment_end)]

\* evaluate_tour_length(tour, cities), lines 68-79: cities[idx] raises
\* IndexError for an index past the end of the city list; an empty tour
\* never enters the loop.
CallTourLength ==
    /\ OnlyCall
    /\ \E tour \in Tours, cs \in CityLists :
          call' = IF \E p \in 1..Len(tour) : tour[p] >= Len(cs)
                  THEN [op |-> "evaluate_tour_length", tour |-> tour,
                        cities |-> cs, raised |-> "IndexError"]
                  ELSE [op |-> "evaluate_tour_length", tour |-> tour,
                        cities |-> cs, raised |-> "none",
                        result |-> evaluate_tour_length(tour, cs)]

\* Linear schedules: the initial temperatures 1000, 2, 1.5, 0 and -5 with
\* the decrements 0.25 (for the 0.2 of the README, which is no short
\* binary fraction), 1, 0 and -1.
LinearSchedules ==
    { LinearSchedule(initial, decrement) :
        initial \in {F(1000, 0), F(2, 0), F(3, -1), F(0, 0), F(-5, 0)},
        decrement \in {F(1, -2), F(1, 0), F(0, 0), F(-1, 0)} }

\* Iterations asked of a schedule: the first ones, and those around the
\* floor of LinearSchedule(1000, 0.25).
Iterations == (0..MaxIter) \cup {3999, 4000, 4001, 6000}

\* LinearSchedule.temperature_at_iteration(iteration), line 136.
CallLinearTemperature ==
    /\ OnlyCall
    /\ \E sched \in LinearSchedules, k \in Iterations :
          call' = [op |-> "LinearSchedule.temperature_at_iteration",
                   schedule |-> sched,
                   iteration |-> k,
                   raised |-> "none",
                   result |-> temperature_at_iteration(sched, k)]

\* Tour costs handed to metropolis_acceptance: 0, the two tour lengths of
\* the unit square, 5 and 10.
Costs == {0, 4 * Scale, CrossingCost, 5 * Scale, 10 * Scale}

\* Temperatures handed to it: 0, -1, 2^-27, 1, 5 and 2^60.
Temperatures == {FZero, F(-1, 0), F(1, -27), F(1, 0), F(5, 0), F(1, 60)}

\* metropolis_acceptance(current_cost, candidate_cost, temperature), lines
\* 163-176, with the generator unseeded or in any of its states; the
\* outcomes are the [accept, rng] pairs the call can end with.
CallMetropolis ==
    /\ OnlyCall
    /\ \E current_cost \in Costs, candidate_cost \in Costs,
          temperature \in Temperatures,
          r \in {NoSeed} \cup (0..(RngModulus - 1)) :
          call' = [op |-> "metropolis_acceptance",
                   current_cost |-> current_cost,
                   candidate_cost |-> candidate_cost,
                   temperature |-> temperature,
                   rng |-> r,
                   raised |-> "none",
                   outcomes |-> metropolis_acceptance(current_cost,
                                  candidate_cost, temperature, r)]

(* -------------------------- Task2: tile shatter ------------------------ *)

\* Lists of tile multipliers have 0 .. MaxTiles elements.
MaxTiles == 4

\* The multipliers: those of the two test cases, and 0.
TileValues == {0, 1, 3, 5, 8}

TileLists == UNION {[1..n -> TileValues] : n \in 0..MaxTiles}

\* [1] + multipliers + [1]
prepare_tile_array(multipliers) == <<1>> \o multipliers \o <<1>>

\* [[0] * size for _ in range(size)], indexed from 0.
initialize_dp_table(size) ==
    [i \in 0..(size - 1) |-> [j \in 0..(size - 1) |-> 0]]

\* Points when tiles[last_shatter_idx] is the last shattered between the
\* bounds (tiles is indexed from 0 in the source).
calculate_points_for_configuration(tiles, dp, left_bound, right_bound, last_shatter_idx) ==
    LET left_subrange_points == dp[left_bound][last_shatter_idx]
        right_subrange_points == dp[last_shatter_idx][right_bound]
        shattering_this_tile ==
            tiles[left_bound + 1] * tiles[last_shatter_idx + 1]
              * tiles[right_bound + 1]
    IN  left_subrange_points + right_subrange_points + shattering_this_tile

\* Lines 95-102: the loop over middle_idx from middle_idx on.
RECURSIVE FillMiddle(_, _, _, _, _)
FillMiddle(tiles, dp, left_idx, right_idx, middle_idx) ==
    IF middle_idx >= right_idx THEN dp
    ELSE LET candidate_points ==
                 calculate_points_for_configuration(tiles, dp, left_idx,
                                                    right_idx, middle_idx)
         IN  FillMiddle(tiles,
                        [dp EXCEPT ![left_idx][right_idx] =
                             Max(dp[left_idx][right_idx], candidate_points)],
                        left_idx, right_idx, middle_idx + 1)

\* Lines 90-102: the loop over left_idx from left_idx on.
RECURSIVE FillLeft(_, _, _, _)
FillLeft(tiles, dp, range_len, left_idx) ==
    IF left_idx >= Len(tiles) - range_len THEN dp
    ELSE FillLeft(tiles,
                  FillMiddle(tiles, dp, left_idx, left_idx + range_len,
                             left_idx + 1),
                  range_len, left_idx + 1)

\* Lines 88-102: the loop over range_len from range_len on.
RECURSIVE FillLength(_, _, _)
FillLength(tiles, dp, range_len) ==
    IF range_len >= Len(tiles) THEN dp
    ELSE FillLength(tiles, FillLeft(tiles, dp, range_len, 0), range_len + 1)

\* The table as fill_dp_table leaves it.
fill_dp_table(tiles, dp) == FillLength(tiles, dp, 2)

\* dp[0][n - 1]
extract_result(dp) == dp[0][Cardinality(DOMAIN dp) - 1]

max_shatter_points(tile_multipliers) ==
    IF Len(tile_multipliers) = 0 \/ Len(tile_multipliers) = 1
    THEN 0
    ELSE LET tiles == prepare_tile_array(tile_multipliers)
             dp == initialize_dp_table(Len(tiles))
         IN  extract_result(fill_dp_table(tiles, dp))

\* max_shatter_points(tile_multipliers), Task2.py lines 139-152.
CallShatter ==
    /\ OnlyCall
    /\ \E tile_multipliers \in TileLists :
          call' = [op |-> "max_shatter_points",
                   tile_multipliers |-> tile_multipliers,
                   raised |-> "none",
                   result |-> max_shatter_points(tile_multipliers)]

NextCalls ==
    \/ CallTwoOpt
    \/ CallTourLength
    \/ CallLinearTemperature
    \/ CallMetropolis
    \/ CallShatter

SpecCalls == InitCalls /\ [][NextCalls]_vars

(* --------------------- claims: the two-opt move ------------------------ *)

\* The last call was one of generate_two_opt_neighbor.
TwoOptCalled == call.op = "generate_two_opt_neighbor"

\* 0 <= i < j < N for the cut points of that call.
ValidCut ==
    /\ 0 <= call.segment_start
    /\ call.segment_start < call.segment_end
    /\ call.segment_end < Len(call.tour)

\* C11 as claimed: generate_two_opt_neighbor with cut points that violate
\* 0 <= i < j < N signals InvalidRange and returns no tour.
C11_BadCutSignalsInvalidRange ==
    (TwoOptCalled /\ ~ValidCut) => call.raised = "InvalidRange"

\* C12: for 0 <= i < j < N the returned tour has the length of the input,
\* holds at each position p of i..j the input's element at i + j - p, and
\* at every other position the input's element at that position.
C12_SegmentReversed ==
    (TwoOptCalled /\ ValidCut) =>
        /\ call.raised = "none"
        /\ Len(call.result) = Len(call.tour)
        /\ \A p \in 0..(Len(call.tour) - 1) :
              call.result[p + 1] =
                 IF call.segment_start <= p /\ p <= call.segment_end
                 THEN call.tour[call.segment_start + call.segment_end - p + 1]
                 ELSE call.tour[p + 1]

\* The scenario of the docstring: ([0,1,2,3,4], 1, 3) gave [0,3,2,1,4].
C12_Witness ==
    /\ TwoOptCalled
    /\ call.tour = <<0, 1, 2, 3, 4>>
    /\ call.segment_start = 1
    /\ call.segment_end = 3
    /\ call.result = <<0, 3, 2, 1, 4>>

(* ------------------- claims: the acceptance criterion ------------------ *)

\* The last call was one of metropolis_acceptance.
MetropolisCalled == call.op = "metropolis_acceptance"

\* C14: metropolis_acceptance returns True whenever candidate_cost <
\* current_cost, whatever the temperature (positive, zero or negative) and
\* the state of the generator; no number is drawn.
C14_ImprovementAccepted ==
    (MetropolisCalled /\ call.candidate_cost < call.current_cost) =>
        /\ call.raised = "none"
        /\ call.outcomes # {}
        /\ \A o \in call.outcomes : o.accept /\ o.rng = call.rng

\* An improving candidate was accepted at a negative temperature.
C14_Witness ==
    /\ MetropolisCalled
    /\ call.candidate_cost < call.current_cost
    /\ FLt(call.temperature, FZero)
    /\ \E o \in call.outcomes : o.accept

\* C15: metropolis_acceptance returns False whenever temperature <= 0 and
\* candidate_cost >= current_cost, for every draw, 0.0 included.
C15_ColdRejects ==
    (/\ MetropolisCalled
     /\ ~FLt(FZero, call.temperature)
     /\ call.candidate_cost >= call.current_cost) =>
        /\ call.raised = "none"
        /\ call.outcomes # {}
        /\ \A o \in call.outcomes : ~o.accept

\* accept(current = 5, candidate = 10, temperature = 0) with the generator
\* in a state whose draw is 0.0 returned False.
C15_Witness ==
    /\ MetropolisCalled
    /\ call.current_cost = 5 * Scale
    /\ call.candidate_cost = 10 * Scale
    /\ call.temperature = FZero
    /\ call.rng # NoSeed
    /\ \A d \in RandBelow(call.rng, Resolution) : d.value = 0
    /\ call.outcomes = {[accept |-> FALSE,
                         rng |-> (5 * call.rng + 3) % RngModulus]}

\* C16: for temperature > 0 and candidate_cost >= current_cost the call
\* consumes one draw and returns True exactly when the draw is strictly
\* below exp(-(candidate_cost - current_cost) / temperature).
C16_AcceptsBelowProbability ==
    (/\ MetropolisCalled
     /\ FLt(FZero, call.temperature)
     /\ call.candidate_cost >= call.current_cost
     /\ call.rng # NoSeed) =>
        /\ call.raised = "none"
        /\ call.outcomes =
              {[accept |-> d.value < ExpNeg(call.candidate_cost
                                              - call.current_cost,
                                            call.temperature),
                rng |-> d.rng] : d \in RandBelow(call.rng, Resolution)}

\* A worse candidate was accepted on a draw just below a probability that
\* is neither 0.0 nor 1.0.
C16_Witness ==
    /\ MetropolisCalled
    /\ FLt(FZero, call.temperature)
    /\ call.candidate_cost > call.current_cost
    /\ call.rng # NoSeed
    /\ LET p == ExpNeg(call.candidate_cost - call.current_cost,
                       call.temperature)
       IN  /\ 0 < p
           /\ p < Resolution
           /\ \A d \in RandBelow(call.rng, Resolution) : d.value = p - 1
    /\ \A o \in call.outcomes : o.accept

(* ------------- claims: the linear schedule, the tour length ------------ *)

\* The last call was one of LinearSchedule.temperature_at_iteration.
LinearCalled == call.op = "LinearSchedule.temperature_at_iteration"

\* C17: LinearSchedule.temperature_at_iteration is never negative, is
\* exactly 0 for every iteration with decrement * iteration >= initial,
\* and is initial - decrement * iteration otherwise: with both brought to
\* the smaller exponent mn, the result is exact * 2^mn when that is
\* positive and 0 when it is not.
C17_LinearFlooredAtZero ==
    LinearCalled =>
        LET initial == call.schedule.initial
            decrement == call.schedule.step
            k == call.iteration
            mn == Min(initial.e, decrement.e)
            exact == initial.m * Pow2(initial.e - mn)
                       - decrement.m * k * Pow2(decrement.e - mn)
        IN  /\ call.raised = "none"
            /\ ~FLt(call.result, FZero)
            /\ ~FLt(FMulInt(decrement, k), initial) => call.result.m = 0
            /\ IF exact > 0
               THEN /\ ~FLt(call.result, F(exact, mn))
                    /\ ~FLt(F(exact, mn), call.result)
               ELSE call.result.m = 0

\* LinearSchedule(1000, 0.25) gave 0 at iteration 6000, where
\* initial - decrement * iteration is -500.
C17_Witness ==
    /\ LinearCalled
    /\ call.schedule = LinearSchedule(F(1000, 0), F(1, -2))
    /\ call.iteration = 6000
    /\ call.result = FZero

\* The last call was one of evaluate_tour_length.
TourLengthCalled == call.op = "evaluate_tour_length"

\* C18 as claimed: evaluate_tour_length signals InvalidInput for a tour of
\* length 0 and returns 0 for a tour of length 1.
C18_EmptyTourSignalsInvalidInput ==
    TourLengthCalled =>
        /\ Len(call.tour) = 0 => call.raised = "InvalidInput"
        /\ (Len(call.tour) = 1 /\ Len(call.cities) >= 1) =>
              (call.raised = "none" /\ call.result = 0)

(* ------------------- solve, with the lists as objects ------------------ *)

\* heap[id] is the content of the list object id; refs binds the names of
\* solve to objects (0: the name is not bound yet).  random.shuffle and
\* nothing else changes a list in place; a slice and a + make a new list.

\* max_iterations of the calls followed object by object.
MaxMoves == 2

\* The schedule of those calls: it stays above 2^-27 for all of them.
RefSchedule == ExponentialSchedule(F(1, 0), F(1, -1))

\* A move that reverses the segment inside the list it was given and
\* returns that list.
TwoOptInPlace(h, tour, segment_start, segment_end) ==
    [heap |-> [h EXCEPT ![tour] = generate_two_opt_neighbor(h[tour],
                                     segment_start, segment_end)],
     result |-> tour]

\* generate_two_opt_neighbor on the object tour (lines 103-108): the three
\* slices and the two + leave it alone and the result is a new object.
TwoOptNewList(h, tour, segment_start, segment_end) ==
    [heap |-> Append(h, generate_two_opt_neighbor(h[tour], segment_start,
                                                  segment_end)),
     result |-> Len(h) + 1]

\* tour[:] (lines 217 and 250): a new object with the same content.
CopyList(h, tour) == [heap |-> Append(h, h[tour]), result |-> Len(h) + 1]

InitRefs ==
    /\ Constructed
    /\ cities = UnitSquare
    /\ rng = NoSeed
    /\ seed = NoSeed
    /\ callsLeft = 0
    /\ call = [op |-> "none"]
    /\ heap = << >>
    /\ refs = [stage |-> "new"]
    /\ service_centers_count = 0
    /\ search = [op |-> "none"]
    /\ finder = [stage |-> "idle"]

\* The steps on objects leave the rest alone.
OnlyRefs ==
    UNCHANGED << solverVars, call, service_centers_count, search, finder >>

\* Lines 213-218: list(range(N)) is object 1, shuffled in place; best_tour
\* is a copy of it.
RefEnter ==
    /\ refs.stage = "new"
    /\ \E s \in Shuffle(Range(num_cities), rng) :
          LET h == << s.tour >>
              copy == CopyList(h, 1)
              d == evaluate_tour_length(s.tour, cities)
          IN  /\ heap' = copy.heap
              /\ refs' = [stage |-> "loop",
                          current_tour |-> 1,
                          best_tour |-> copy.result,
                          neighbor_tour |-> 0,
                          best_route |-> 0,
                          result |-> 0,
                          current_distance |-> d,
                          best_distance |-> d,
                          iteration |-> Unbound]
    /\ OnlyRefs

\* The iteration the loop of this call gives next.
RefNextIteration ==
    IF refs.iteration = Unbound THEN 0 ELSE refs.iteration + 1

\* Lines 230-237: equal indices, continue.
RefSkip ==
    /\ refs.stage = "loop"
    /\ RefNextIteration < MaxMoves
    /\ refs' = [refs EXCEPT !.iteration = RefNextIteration]
    /\ UNCHANGED heap
    /\ OnlyRefs

\* Lines 230-251 with idx1 < idx2: the neighbour is a new object; accepted,
\* current_tour names that object, and an improving one is copied to
\* best_tour.
RefMove ==
    /\ refs.stage = "loop"
    /\ RefNextIteration < MaxMoves
    /\ \E idx1 \in 0..(num_cities - 1), idx2 \in 0..(num_cities - 1) :
          LET made == TwoOptNewList(heap, refs.current_tour, idx1, idx2)
              neighbor_distance ==
                  evaluate_tour_length(made.heap[made.result], cities)
              temperature ==
                  temperature_at_iteration(RefSchedule, RefNextIteration)
          IN  /\ idx1 < idx2
              /\ \E m \in metropolis_acceptance(refs.current_distance,
                             neighbor_distance, temperature, rng) :
                    IF ~m.accept
                    THEN /\ heap' = made.heap
                         /\ refs' = [refs EXCEPT
                                       !.neighbor_tour = made.result,
                                       !.iteration = RefNextIteration]
                    ELSE IF neighbor_distance < refs.best_distance
                    THEN LET copy == CopyList(made.heap, made.result)
                         IN  /\ heap' = copy.heap
                             /\ refs' = [refs EXCEPT
                                           !.neighbor_tour = made.result,
                                           !.current_tour = made.result,
                                           !.current_distance =
                                               neighbor_distance,
                                           !.best_tour = copy.result,
                                           !.best_distance =
                                               neighbor_distance,
                                           !.iteration = RefNextIteration]
                    ELSE /\ heap' = made.heap
                         /\ refs' = [refs EXCEPT
                                       !.neighbor_tour = made.result,
                                       !.current_tour = made.result,
                                       !.current_distance =
                                           neighbor_distance,
                                       !.iteration = RefNextIteration]
    /\ OnlyRefs

\* Lines 253-257: best_route and the returned tour are the object
\* best_tour names.
RefReturn ==
    /\ refs.stage = "loop"
    /\ ~(RefNextIteration < MaxMoves)
    /\ refs' = [refs EXCEPT !.stage = "returned",
                            !.best_route = refs.best_tour,
                            !.result = refs.best_tour]
    /\ UNCHANGED heap
    /\ OnlyRefs

NextRefs ==
    \/ RefEnter
    \/ RefSkip
    \/ RefMove
    \/ RefReturn

SpecRefs == InitRefs /\ [][NextRefs]_vars

(* ---------------------- claims: lists as objects ----------------------- *)

\* C13: generate_two_opt_neighbor leaves its input as it was and returns
\* another object; no step of solve changes a list that exists, so a best
\* tour once stored keeps its content whatever happens to current_tour;
\* and best_tour is never the object current_tour or neighbor_tour names
\* and holds the tour best_distance was computed from.
C13_InputAndBestUntouched ==
    /\ [](refs.stage # "new" =>
            /\ refs.best_tour # refs.current_tour
            /\ refs.best_tour # refs.neighbor_tour
            /\ evaluate_tour_length(heap[refs.best_tour], cities)
                  = refs.best_distance)
    /\ [][refs.stage = "loop" =>
            /\ \A id \in 1..Len(heap) : heap'[id] = heap[id]
            /\ refs'.neighbor_tour # refs.neighbor_tour =>
                  /\ refs'.neighbor_tour > Len(heap)
                  /\ heap'[refs.current_tour] = heap[refs.current_tour]
            /\ refs'.best_tour = refs.best_tour =>
                  heap'[refs'.best_tour] = heap[refs.best_tour]]_vars

\* The current tour moved on to a longer tour, a new object, after a best
\* tour was stored as a copy during the loop, and the best kept its content.
C13_Witness ==
    /\ refs.stage = "returned"
    /\ refs.best_tour > 2
    /\ refs.current_tour > refs.best_tour
    /\ refs.best_distance < refs.current_distance
    /\ heap[refs.best_tour] # heap[refs.current_tour]

(* ----------------------- claims: tile shatter -------------------------- *)

\* The largest element of a non-empty set of integers.
Largest(S) == CHOOSE x \in S : \A y \in S : y <= x

\* The sequence without its element at position p.
Without(seq, p) == SubSeq(seq, 1, p - 1) \o SubSeq(seq, p + 1, Len(seq))

\* The points of shattering the tile at position p of the tiles left: its
\* neighbours among them, 1 for a missing one.
ShatterPoints(left, p) ==
    (IF p > 1 THEN left[p - 1] ELSE 1) * left[p]
      * (IF p < Len(left) THEN left[p + 1] ELSE 1)

\* The most points any order of shattering all the tiles left can give.
RECURSIVE BestOrderPoints(_)
BestOrderPoints(left) ==
    IF Len(left) = 0 THEN 0
    ELSE Largest({ShatterPoints(left, p) + BestOrderPoints(Without(left, p)) :
                    p \in 1..Len(left)})

\* C19 as claimed: for every list of tile multipliers, the empty and the
\* one-element list included, max_shatter_points returns the maximum over
\* all orders of shattering every tile of the summed points.
C19_MaxOverAllOrders ==
    call.op = "max_shatter_points" =>
        call.result = BestOrderPoints(call.tile_multipliers)

(* ----------------------- Task3: service centers ------------------------ *)

\* Trees handed to the planner have 0 .. MaxNodes nodes.
MaxNodes == 5

\* Calls of min_centers made on one planner.
MaxPlans == 2

\* The states of a node (Task3.py lines 30-32).
NOT_COVERED == 0

HAS_CENTER == 1

COVERED == 2

\* A None in a level-order list.
NoNode == -1

\* A tree is << >> for None and << left, right >> for a TreeNode; val is
\* never read by the planner.
RECURSIVE TreesOfSize(_)
TreesOfSize(n) ==
    IF n = 0 THEN { << >> }
    ELSE UNION { { << l, r >> : l \in TreesOfSize(k),
                                r \in TreesOfSize(n - 1 - k) } :
                 k \in 0..(n - 1) }

Trees == UNION {TreesOfSize(n) : n \in 0..MaxNodes}

\* _dfs_state(node) with service_centers_count at count when it is
\* entered: the state returned and the count it leaves.
RECURSIVE dfs_state(_, _)
dfs_state(node, count) ==
    IF node = << >>
    THEN [state |-> COVERED, count |-> count]
    ELSE LET left_child == dfs_state(node[1], count)
             right_child == dfs_state(node[2], left_child.count)
             left_child_state == left_child.state
             right_child_state == right_child.state
         IN  IF left_child_state = NOT_COVERED
                  \/ right_child_state = NOT_COVERED
             THEN [state |-> HAS_CENTER, count |-> right_child.count + 1]
             ELSE IF left_child_state = HAS_CENTER
                       \/ right_child_state = HAS_CENTER
             THEN [state |-> COVERED, count |-> right_child.count]
             ELSE [state |-> NOT_COVERED, count |-> right_child.count]

\* min_centers without the reset of line 69.
MinCentersNoReset(count, root) ==
    LET root_state == dfs_state(root, count)
    IN  IF root_state.state = NOT_COVERED
        THEN root_state.count + 1
        ELSE root_state.count

\* min_centers(root) on a planner whose service_centers_count is count:
\* the count it leaves and returns (lines 69-73).
min_centers(count, root) ==
    LET root_state == dfs_state(root, 0)
    IN  IF root_state.state = NOT_COVERED
        THEN root_state.count + 1
        ELSE root_state.count

\* Lines 85-90: the nodes in list order take the next entries of the list
\* as left and right child while there are any; links[i] is the pair of
\* the positions taken by node i (0: none left).
RECURSIVE LinkKids(_, _, _, _)
LinkKids(values, i, next, links) ==
    IF i > Len(values) THEN links
    ELSE IF values[i] = NoNode THEN LinkKids(values, i + 1, next, links)
    ELSE LET l == IF next <= Len(values) THEN next ELSE 0
             afterLeft == IF l = 0 THEN next ELSE next + 1
             r == IF afterLeft <= Len(values) THEN afterLeft ELSE 0
             afterRight == IF r = 0 THEN afterLeft ELSE afterLeft + 1
         IN  LinkKids(values, i + 1, afterRight,
                      [links EXCEPT ![i] = << l, r >>])

\* The tree hanging from the entry at position i.
RECURSIVE TreeAt(_, _, _)
TreeAt(values, links, i) ==
    IF i = 0 THEN << >>
    ELSE IF values[i] = NoNode THEN << >>
    ELSE << TreeAt(values, links, links[i][1]),
            TreeAt(values, links, links[i][2]) >>

build_tree_from_level(values) ==
    IF Len(values) = 0 THEN << >>
    ELSE TreeAt(values,
                LinkKids(values, 1, 2, [i \in 1..Len(values) |-> <<0, 0>>]),
                1)

\* The level order of __main__ (line 96).
level_order == <<0, 0, NoNode, 0, NoNode, 0, NoNode, NoNode, 0>>

InitPlanner == InitCalls

\* The calls of min_centers made so far.
PlansMade == IF call.op = "none" THEN 0 ELSE call.made

\* The record of a call of min_centers: held is the count the planner held
\* when it was called, which is what the call before left there, and
\* again says that the call before was on this tree.
Planned(root, values) ==
    [op |-> "min_centers",
     root |-> root,
     values |-> values,
     result |-> min_centers(service_centers_count, root),
     made |-> PlansMade + 1,
     held |-> service_centers_count,
     again |-> IF call.op = "none" THEN FALSE ELSE call.root = root]

\* planner.min_centers(root) on the planner as the calls before left it.
MinCenters ==
    /\ PlansMade < MaxPlans
    /\ \E root \in Trees :
          /\ call' = Planned(root, << >>)
          /\ service_centers_count' =
                min_centers(service_centers_count, root)
    /\ UNCHANGED << solverVars, heap, refs, search, finder >>

\* Lines 96-100: the tree is built from the level order and planned.
MinCentersOfLevelOrder ==
    /\ PlansMade < MaxPlans
    /\ LET root == build_tree_from_level(level_order)
       IN  /\ call' = Planned(root, level_order)
           /\ service_centers_count' =
                 min_centers(service_centers_count, root)
    /\ UNCHANGED << solverVars, heap, refs, search, finder >>

NextPlanner == MinCenters \/ MinCentersOfLevelOrder

SpecPlanner == InitPlanner /\ [][NextPlanner]_vars

(* --------------------- claims: service centers ------------------------- *)

\* The nodes of a tree, each as the path of 1s (left) and 2s (right) that
\* leads to it from the root.
RECURSIVE NodesBelow(_, _)
NodesBelow(tree, path) ==
    IF tree = << >> THEN {}
    ELSE {path} \cup NodesBelow(tree[1], Append(path, 1))
                \cup NodesBelow(tree[2], Append(path, 2))

ParentOf(node) == SubSeq(node, 1, Len(node) - 1)

\* Every node is in centers or has its parent or a child in it.
Covers(centers, nodes) ==
    \A n \in nodes :
        \/ n \in centers
        \/ Len(n) > 0 /\ ParentOf(n) \in centers
        \/ \E c \in centers : Len(c) = Len(n) + 1 /\ ParentOf(c) = n

\* The size of a smallest covering set of nodes of the tree.
FewestCenters(tree) ==
    LET nodes == NodesBelow(tree, << >>)
        sizes == {Cardinality(centers) :
                    centers \in {c \in SUBSET nodes : Covers(c, nodes)}}
    IN  CHOOSE s \in sizes : \A t \in sizes : s <= t

CITY_GRAPH ==
    [c \in {"Glogow", "Zielona_Gora", "Poznan", "Wroclaw", "Szczecin",
            "Konin", "Lodz", "Warsaw", "Plock", "Opole", "Kalisz", "Radom",
            "Gdansk"} |->
       CASE c = "Glogow" ->
              << <<"Zielona_Gora", 50>>, <<"Poznan", 85>>, <<"Wroclaw", 120>> >>
         [] c = "Zielona_Gora" ->
              << <<"Glogow", 50>>, <<"Poznan", 60>>, <<"Szczecin", 180>> >>
         [] c = "Poznan" ->
              << <<"Glogow", 85>>, <<"Zielona_Gora", 60>>, <<"Wroclaw", 90>>,
                 <<"Konin", 70>>, <<"Lodz", 110>> >>
         [] c = "Wroclaw" ->
              << <<"Glogow", 120>>, <<"Poznan", 90>>, <<"Opole", 95>>,
                 <<"Kalisz", 130>> >>
         [] c = "Szczecin" -> << <<"Zielona_Gora", 180>>, <<"Gdansk", 350>> >>
         [] c = "Konin" ->
              << <<"Poznan", 70>>, <<"Lodz", 95>>, <<"Warsaw", 180>> >>
         [] c = "Lodz" ->
              << <<"Poznan", 110>>, <<"Konin", 95>>, <<"Warsaw", 140>>,
                 <<"Plock", 150>> >>
         [] c = "Warsaw" ->
              << <<"Konin", 180>>, <<"Lodz", 140>>, <<"Plock", 120>>,
                 <<"Radom", 100>> >>
         [] c = "Plock" -> << <<"Lodz", 150>>, <<"Warsaw", 120>> >>
         [] c = "Opole" -> << <<"Wroclaw", 95>>, <<"Kalisz", 120>> >>
         [] c = "Kalisz" ->
              << <<"Wroclaw", 130>>, <<"Opole", 120>>, <<"Lodz", 80>> >>
         [] c = "Radom" -> << <<"Warsaw", 100>> >>
         [] c = "Gdansk" -> << <<"Szczecin", 350>> >>]

\* HEURISTIC_DISTANCES (lines 30-34).
HEURISTIC_DISTANCES ==
    [c \in DOMAIN CITY_GRAPH |->
       CASE c = "Glogow" -> 380 [] c = "Zielona_Gora" -> 400
         [] c = "Poznan" -> 340 [] c = "Wroclaw" -> 450
         [] c = "Szczecin" -> 500 [] c = "Konin" -> 280
         [] c = "Lodz" -> 150 [] c = "Warsaw" -> 120 [] c = "Plock" -> 0
         [] c = "Opole" -> 480 [] c = "Kalisz" -> 200
         [] c = "Radom" -> 140 [] c = "Gdansk" -> 550]

START_CITY == "Glogow"

GOAL_CITY == "Plock"

\* None as a parent and None as a path.
NoCity == "None"

NoPath == << "None" >>

\* get_neighbors (lines 42-44).
get_neighbors(city, graph) ==
    IF city \in DOMAIN graph THEN graph[city] ELSE << >>

is_goal(city, goal) == city = goal

\* parents.get(current): None for a city the dict does not hold.
GetParent(parents, current) ==
    IF current \in DOMAIN parents THEN parents[current] ELSE NoCity

\* Lines 54-58: the cities from goal back to the one without parent.
RECURSIVE PathBack(_, _)
PathBack(parents, current) ==
    IF current = NoCity THEN << >>
    ELSE << current >> \o PathBack(parents, GetParent(parents, current))

reconstruct_path_from_parents(parents, goal) ==
    Reversed(PathBack(parents, goal))

\* graph.get(a, {}).get(b, 0).
EdgeCost(graph, a, b) ==
    LET found == {i \in 1..Len(get_neighbors(a, graph)) :
                     get_neighbors(a, graph)[i][1] = b}
    IN  IF found = {} THEN 0
        ELSE get_neighbors(a, graph)[CHOOSE i \in found : TRUE][2]

RECURSIVE PathCostFrom(_, _, _)
PathCostFrom(path, graph, i) ==
    IF i >= Len(path) THEN 0
    ELSE EdgeCost(graph, path[i], path[i + 1]) + PathCostFrom(path, graph, i + 1)

\* calculate_path_cost (lines 62-67).
calculate_path_cost(path, graph) == PathCostFrom(path, graph, 1)

\* Is x on the list.
OnList(x, list) == \E i \in 1..Len(list) : list[i] = x

\* Lines 185-189 from neighbour i on: the [open_queue, parents] the loop
\* leaves.
RECURSIVE BfsAdd(_, _, _, _, _)
BfsAdd(s, current, new_closed, nbrs, i) ==
    IF i > Len(nbrs) THEN s
    ELSE LET neighbor == nbrs[i][1]
         IN  IF neighbor \notin new_closed /\ ~OnList(neighbor, s.open_queue)
             THEN BfsAdd([open_queue |-> Append(s.open_queue, neighbor),
                          parents |-> (neighbor :> current) @@ s.parents],
                         current, new_closed, nbrs, i + 1)
             ELSE BfsAdd(s, current, new_closed, nbrs, i + 1)

calculate_f_score(g_score, h_score) == g_score + h_score

\* expand_node (lines 204-220): (f, neighbour, new_g) for each neighbour.
expand_node(current, g_scores, heuristic, graph) ==
    [i \in 1..Len(get_neighbors(current, graph)) |->
       LET neighbor == get_neighbors(current, graph)[i][1]
           edge_cost == get_neighbors(current, graph)[i][2]
           new_g == g_scores[current] + edge_cost
       IN  << calculate_f_score(new_g, heuristic[neighbor]), neighbor, new_g >>]

\* The entry heapq.heappop gives: the least (f, counter, city); the
\* counters differ, so cities are never compared.
HeapTop(open_heap) ==
    CHOOSE t \in open_heap :
        \A u \in open_heap :
            t[1] < u[1] \/ (t[1] = u[1] /\ t[2] <= u[2])

\* Lines 262-268 from neighbour i on: the [g_scores, parents, open_heap,
\* counter] the loop leaves.
RECURSIVE AstarRelax(_, _, _, _)
AstarRelax(s, current, nbrs, i) ==
    IF i > Len(nbrs) THEN s
    ELSE LET f_val == nbrs[i][1]
             neighbor == nbrs[i][2]
             new_g == nbrs[i][3]
         IN  IF neighbor \notin s.closed_set
                  /\ (neighbor \notin DOMAIN s.g_scores
                        \/ new_g < s.g_scores[neighbor])
             THEN AstarRelax(
                    [s EXCEPT
                       !.g_scores = (neighbor :> new_g) @@ s.g_scores,
                       !.parents = (neighbor :> current) @@ s.parents,
                       !.open_heap = s.open_heap
                                       \cup {<< f_val, s.counter, neighbor >>},
                       !.counter = s.counter + 1],
                    current, nbrs, i + 1)
             ELSE AstarRelax(s, current, nbrs, i + 1)

\* What the steps of a search leave alone.
OnlySearch ==
    UNCHANGED << solverVars, call, heap, refs, service_centers_count,
                 finder >>

\* Line 193: bfs_search(start, GOAL_CITY, CITY_GRAPH) enters bfs_loop.
BfsSearch ==
    /\ search.op = "none"
    /\ \E start \in DOMAIN CITY_GRAPH :
          search' = [op |-> "bfs",
                     start |-> start,
                     goal |-> GOAL_CITY,
                     open_queue |-> << start >>,
                     closed_set |-> {},
                     parents |-> (start :> NoCity),
                     step |-> 1,
                     done |-> FALSE,
                     result |-> << NoPath, 0, 0 >>]
    /\ OnlySearch

\* One call of bfs_loop (lines 166-191).
BfsLoop ==
    /\ search.op = "bfs"
    /\ ~search.done
    /\ IF Len(search.open_queue) = 0
       THEN search' = [search EXCEPT
                         !.done = TRUE,
                         !.result = << NoPath, Cardinality(search.closed_set),
                                       search.step >>]
       ELSE LET current == Head(search.open_queue)
                open_queue == Tail(search.open_queue)
            IN  IF is_goal(current, search.goal)
                THEN search' = [search EXCEPT
                        !.open_queue = open_queue,
                        !.done = TRUE,
                        !.result =
                           << reconstruct_path_from_parents(search.parents,
                                                            current),
                              Cardinality(search.closed_set \cup {current}),
                              search.step >>]
                ELSE LET new_closed == search.closed_set \cup {current}
                         added == BfsAdd([open_queue |-> open_queue,
                                          parents |-> search.parents],
                                         current, new_closed,
                                         get_neighbors(current, CITY_GRAPH), 1)
                     IN  search' = [search EXCEPT
                                      !.open_queue = added.open_queue,
                                      !.closed_set = new_closed,
                                      !.parents = added.parents,
                                      !.step = search.step + 1]
    /\ OnlySearch

\* Lines 232-239: astar_search(start, GOAL_CITY, CITY_GRAPH,
\* HEURISTIC_DISTANCES) after the BFS from the same start returned.
AstarSearch ==
    /\ search.op = "bfs"
    /\ search.done
    /\ search' = [op |-> "astar",
                  start |-> search.start,
                  goal |-> search.goal,
                  bfs |-> search.result,
                  open_heap |-> {<< HEURISTIC_DISTANCES[search.start], 0,
                                    search.start >>},
                  counter |-> 1,
                  g_scores |-> (search.start :> 0),
                  closed_set |-> {},
                  parents |-> (search.start :> NoCity),
                  step |-> 1,
                  done |-> FALSE,
                  result |-> << NoPath, 0, 0 >>]
    /\ OnlySearch

\* One pass of the while loop (lines 241-271), or its end (line 273).
AstarPass ==
    /\ search.op = "astar"
    /\ ~search.done
    /\ IF search.open_heap = {}
       THEN search' = [search EXCEPT
                         !.done = TRUE,
                         !.result = << NoPath, Cardinality(search.closed_set),
                                       search.step >>]
       ELSE LET top == HeapTop(search.open_heap)
                current == top[3]
                popped == [search EXCEPT !.open_heap = @ \ {top}]
            IN  IF current \in search.closed_set
                THEN search' = popped
                ELSE IF is_goal(current, search.goal)
                THEN search' = [popped EXCEPT
                        !.done = TRUE,
                        !.result =
                           << reconstruct_path_from_parents(search.parents,
                                                            current),
                              Cardinality(search.closed_set) + 1,
                              search.step >>]
                ELSE LET closed == [popped EXCEPT
                                      !.closed_set = @ \cup {current}]
                         relaxed ==
                             AstarRelax(closed, current,
                                        expand_node(current, search.g_scores,
                                                    HEURISTIC_DISTANCES,
                                                    CITY_GRAPH), 1)
                     IN  search' = [relaxed EXCEPT !.step = @ + 1]
    /\ OnlySearch

\* Lines 304-308: the optimality line of the report.
Report ==
    /\ search.op = "astar"
    /\ search.done
    /\ LET astar_path == search.result[1]
           bfs_path == search.bfs[1]
       IN  search' =
             [op |-> "report",
              start |-> search.start,
              goal |-> search.goal,
              bfs |-> search.bfs,
              astar |-> search.result,
              optimality |->
                 IF astar_path # NoPath /\ bfs_path # NoPath
                 THEN IF calculate_path_cost(astar_path, CITY_GRAPH)
                           <= calculate_path_cost(bfs_path, CITY_GRAPH)
                      THEN "A* <= BFS" ELSE "A* > BFS"
                 ELSE "none"]
    /\ OnlySearch

NextSearch ==
    \/ BfsSearch
    \/ BfsLoop
    \/ AstarSearch
    \/ AstarPass
    \/ Report

SpecSearch == InitCalls /\ [][NextSearch]_vars

(* ------------------------ claims: route searches ----------------------- *)

\* The path goes from start to goal along edges of the graph.
IsRoute(path, start, goal, graph) ==
    /\ Len(path) >= 1
    /\ path[1] = start
    /\ path[Len(path)] = goal
    /\ \A i \in 1..(Len(path) - 1) :
          \E j \in 1..Len(get_neighbors(path[i], graph)) :
              get_neighbors(path[i], graph)[j][1] = path[i + 1]

\* The costs of the routes from city to goal that enter no city twice
\* and none of visited.
RECURSIVE RouteCosts(_, _, _, _)
RouteCosts(city, goal, graph, visited) ==
    IF city = goal THEN {0}
    ELSE UNION {
           LET neighbor == graph[city][j][1]
           IN  IF neighbor \in visited \cup {city} THEN {}
               ELSE {graph[city][j][2] + x :
                       x \in RouteCosts(neighbor, goal, graph,
                                        visited \cup {city})} :
           j \in 1..Len(graph[city]) }

\* There is a route from start to goal.
Reachable(start, goal, graph) == RouteCosts(start, goal, graph, {}) # {}

\* The least cost of a route from start to goal, when there is one.
LeastCost(start, goal, graph) ==
    LET costs == RouteCosts(start, goal, graph, {})
    IN  CHOOSE m \in costs : \A x \in costs : m <= x

\* C21 as claimed: for every start from which Plock is reachable, the path
\* astar_search returns goes from start to Plock along edges, costs the
\* least any such path costs, and so never more than the path of
\* bfs_search.
C21_AstarLeastCost ==
    (search.op = "report" /\ Reachable(search.start, GOAL_CITY, CITY_GRAPH))
        => /\ IsRoute(search.astar[1], search.start, GOAL_CITY, CITY_GRAPH)
           /\ calculate_path_cost(search.astar[1], CITY_GRAPH)
                 = LeastCost(search.start, GOAL_CITY, CITY_GRAPH)
           /\ calculate_path_cost(search.astar[1], CITY_GRAPH)
                 <= calculate_path_cost(search.bfs[1], CITY_GRAPH)

(* ------------------- Task5a: edge-disjoint paths ----------------------- *)

\* Node ids a caller passes beyond those of the graph.
ExtraNodes == 1

\* The edges of _build_graph (Task5a.py lines 24-28) as (u, v, weight).
NetworkEdges ==
    { <<0, 1, 4>>, <<0, 2, 2>>, <<1, 2, 1>>, <<1, 3, 5>>,
      <<2, 3, 8>>, <<2, 4, 10>>, <<3, 4, 2>>, <<3, 5, 6>>,
      <<4, 5, 3>>, <<5, 6, 1>>, <<6, 7, 4>>, <<4, 7, 7>> }

\* The nodes add_edge creates (lines 29-30).
NetworkNodes == {e[1] : e \in NetworkEdges} \cup {e[2] : e \in NetworkEdges}

\* graph.has_edge(u, v) of an undirected graph.
has_edge(edges, u, v) ==
    \E e \in edges : (e[1] = u /\ e[2] = v) \/ (e[1] = v /\ e[2] = u)

\* graph.remove_edge(u, v).
remove_edge(edges, u, v) ==
    {e \in edges : ~((e[1] = u /\ e[2] = v) \/ (e[1] = v /\ e[2] = u))}

\* graph[u][v]['weight'].
Weight(edges, u, v) ==
    (CHOOSE e \in edges :
        (e[1] = u /\ e[2] = v) \/ (e[1] = v /\ e[2] = u))[3]

\* The paths that extend path to target without entering a node twice.
RECURSIVE SimplePaths(_, _, _)
SimplePaths(edges, path, target) ==
    IF path[Len(path)] = target THEN {path}
    ELSE UNION { SimplePaths(edges, Append(path, v), target) :
                 v \in {n \in NetworkNodes :
                          /\ has_edge(edges, path[Len(path)], n)
                          /\ ~OnList(n, path)} }

RECURSIVE PathWeightFrom(_, _, _)
PathWeightFrom(edges, path, i) ==
    IF i >= Len(path) THEN 0
    ELSE Weight(edges, path[i], path[i + 1]) + PathWeightFrom(edges, path, i + 1)

PathWeight(edges, path) == PathWeightFrom(edges, path, 1)

\* nx.shortest_path(graph, source, target, weight='weight') for nodes of
\* the graph: the paths of least total weight, any of which it may return;
\* none when it raises NetworkXNoPath.
shortest_path(edges, source, target) ==
    LET all == SimplePaths(edges, << source >>, target)
    IN  {p \in all : \A q \in all : PathWeight(edges, p) <= PathWeight(edges, q)}

\* What the steps of find_disjoint_paths leave alone.
OnlyFinder ==
    UNCHANGED << solverVars, call, heap, refs, service_centers_count,
                 search >>

\* Line 82 (and line 80's shape): what a finished call returned.
Returned(source, target, path1, path2, found) ==
    [stage |-> "returned", source |-> source, target |-> target,
     path1 |-> path1, path2 |-> path2, found |-> found]

\* Lines 65-70: the first shortest path and the copy of the graph; a node
\* the graph does not hold, or no path at all, raises inside the try and
\* line 82 returns (None, None, False).
FindFirstPath ==
    /\ finder.stage = "idle"
    /\ \E source \in 0..(Cardinality(NetworkNodes) - 1 + ExtraNodes),
          target \in 0..(Cardinality(NetworkNodes) - 1 + ExtraNodes) :
          IF source \notin NetworkNodes \/ target \notin NetworkNodes
          THEN finder' = Returned(source, target, None, None, FALSE)
          ELSE IF shortest_path(NetworkEdges, source, target) = {}
          THEN finder' = Returned(source, target, None, None, FALSE)
          ELSE \E path1 \in shortest_path(NetworkEdges, source, target) :
                  finder' = [stage |-> "removing",
                             source |-> source,
                             target |-> target,
                             path1 |-> path1,
                             temp_graph |-> NetworkEdges,
                             i |-> 0]
    /\ OnlyFinder

\* Lines 71-73: one pass of the loop over the edges of path1 (i counts
\* from 0, the path from 1).
RemovePathEdge ==
    /\ finder.stage = "removing"
    /\ finder.i < Len(finder.path1) - 1
    /\ LET u == finder.path1[finder.i + 1]
           v == finder.path1[finder.i + 2]
       IN  finder' = [finder EXCEPT
                        !.i = @ + 1,
                        !.temp_graph =
                            IF has_edge(@, u, v) THEN remove_edge(@, u, v)
                            ELSE @]
    /\ OnlyFinder

\* Lines 76-80: the second shortest path in what is left of the graph.
FindSecondPath ==
    /\ finder.stage = "removing"
    /\ ~(finder.i < Len(finder.path1) - 1)
    /\ LET second == shortest_path(finder.temp_graph, finder.source,
                                   finder.target)
       IN  IF second = {}
           THEN finder' = Returned(finder.source, finder.target,
                                   finder.path1, None, FALSE)
           ELSE \E path2 \in second :
                   finder' = Returned(finder.source, finder.target,
                                      finder.path1, path2, TRUE)
    /\ OnlyFinder

NextFinder ==
    \/ FindFirstPath
    \/ RemovePathEdge
    \/ FindSecondPath

SpecFinder == InitCalls /\ [][NextFinder]_vars

(* ----------------------- claims: disjoint paths ------------------------ *)

\* The edges a path runs over, each as the set of its two ends.
PathEdges(path) == {{path[i], path[i + 1]} : i \in 1..(Len(path) - 1)}

\* The graph holds two source-to-target paths that share no edge.
TwoDisjointPaths(source, target) ==
    \E p, q \in SimplePaths(NetworkEdges, << source >>, target) :
        PathEdges(p) \cap PathEdges(q) = {}

\* The path runs from source to target over edges of the graph.
IsNetworkPath(path, source, target) ==
    /\ path # None
    /\ path[1] = source
    /\ path[Len(path)] = target
    /\ \A i \in 1..(Len(path) - 1) :
          has_edge(NetworkEdges, path[i], path[i + 1])

\* C22 as claimed: for distinct nodes source and target of the network,
\* find_disjoint_paths returns (path1, path2, True) with two
\* source-to-target paths sharing no edge exactly when the graph holds two
\* edge-disjoint source-to-target paths, and (path1, None, False) only
\* when it holds none.
C22_FindsDisjointWhenTheyExist ==
    (/\ finder.stage = "returned"
     /\ finder.source \in NetworkNodes
     /\ finder.target \in NetworkNodes
     /\ finder.source # finder.target)
        => /\ finder.found <=> TwoDisjointPaths(finder.source, finder.target)
           /\ finder.found =>
                 /\ IsNetworkPath(finder.path1, finder.source, finder.target)
                 /\ IsNetworkPath(finder.path2, finder.source, finder.target)
                 /\ PathEdges(finder.path1) \cap PathEdges(finder.path2) = {}
           /\ ~finder.found => finder.path2 = None

(* --------------------- claims: the loop of solve ----------------------- *)

\* The temperature the schedule gives at iteration k is below
\* min_temperature.
BelowFloor(k) ==
    /\ ~TemperatureRaises(schedule, k)
    /\ FLt(temperature_at_iteration(schedule, k), min_temperature)

\* C23: at the first iteration k whose temperature is below
\* min_temperature the call returns in that step, without a draw: the
\* generator, the tours and costs and the last candidate are those of the
\* end of iteration k-1, the pair returned is the best tour and cost held
\* there, and nothing is done at a later iteration, whatever the schedule
\* would give there.
C23_StopsAtFirstColdIteration ==
    /\ []((pc = "returned" /\ phase = "Converged") =>
            /\ BelowFloor(iteration)
            /\ \A k \in 0..(iteration - 1) : ~BelowFloor(k)
            /\ executed = iteration
            /\ result = << best_tour, best_distance >>)
    /\ [][(InLoop /\ BelowFloor(NextIteration)) =>
            /\ pc' = "returned"
            /\ phase' = "Converged"
            /\ iteration' = NextIteration
            /\ result' = << best_tour, best_distance >>
            /\ UNCHANGED << rng, current_tour, current_distance, best_tour,
                            best_distance, neighbor_tour, executed >>]_vars
    /\ [][pc = "returned" => UNCHANGED vars]_vars

\* A call on four cities stopped at iteration 1 after a move at iteration
\* 0, with a schedule that is above min_temperature again at iteration 2.
C23_Witness ==
    /\ pc = "returned"
    /\ phase = "Converged"
    /\ num_cities = 4
    /\ iteration = 1
    /\ executed = 1
    /\ neighbor_tour # None
    /\ max_iterations = 3
    /\ ~BelowFloor(2)
    /\ ~TemperatureRaises(schedule, 2)

\* The candidates the pass that comes next can hand to
\* metropolis_acceptance: one for each pair of cut indices idx1 < idx2.
Candidates ==
    {generate_two_opt_neighbor(current_tour, cut[1], cut[2]) :
       cut \in {c \in (0..(num_cities - 1)) \X (0..(num_cities - 1)) :
                  c[1] < c[2]}}

\* C24: whatever schedule and min_temperature (also one <= 0, which lets a
\* temperature <= 0 past the test of line 226), no call of
\* metropolis_acceptance that solve makes divides by a temperature that is
\* not above zero; with a temperature <= 0 it divides by nothing.
C24_NeverDividesByColdTemperature ==
    Running =>
        \A candidate \in Candidates :
            LET divisors ==
                    MetropolisDivisors(current_distance,
                        evaluate_tour_length(candidate, cities), Temperature)
            IN  /\ \A t \in divisors : FLt(FZero, t)
                /\ ~FLt(FZero, Temperature) => divisors = {}

\* A pass on four cities ran at a temperature of zero or below, let
\* through by a min_temperature below zero, and its candidate, no shorter
\* than the current tour, was rejected.
C24_Witness ==
    /\ pc = "loop"
    /\ num_cities = 4
    /\ iteration = 0
    /\ executed = 1
    /\ FLt(min_temperature, FZero)
    /\ ~FLt(FZero, temperature_at_iteration(schedule, 0))
    /\ neighbor_tour # None
    /\ neighbor_tour # current_tour
    /\ evaluate_tour_length(neighbor_tour, cities) >= current_distance

\* The step replaced the current tour: a candidate was accepted (a
\* candidate of solve always differs from the tour it was made from).
AcceptedStep == pc = "loop" /\ current_tour' # current_tour

\* The step changed the best tour or the best cost.
BestChanged == best_tour' # best_tour \/ best_distance' # best_distance

\* C25: a step of the loop changes the best tour or cost only when it
\* accepted a candidate whose cost is strictly below the best cost so far,
\* and then the best is that candidate and its cost; an accepted candidate
\* whose cost is equal to or above the best cost becomes the current tour
\* and cost and leaves the best as it was.
C25_BestOnlyOnStrictImprovement ==
    [][/\ (pc = "loop" /\ BestChanged) =>
             /\ AcceptedStep
             /\ current_distance' < best_distance
       /\ AcceptedStep =>
             /\ current_tour' = neighbor_tour'
             /\ current_distance' = evaluate_tour_length(neighbor_tour', cities)
             /\ IF current_distance' < best_distance
                THEN /\ best_tour' = current_tour'
                     /\ best_distance' = current_distance'
                ELSE ~BestChanged]_vars

\* A candidate on four cities that costs what the best costs was accepted:
\* the current tour is the candidate, the best is still another tour.
C25_Witness ==
    /\ pc = "loop"
    /\ num_cities = 4
    /\ executed >= 1
    /\ current_tour = neighbor_tour
    /\ current_distance = best_distance
    /\ best_tour # current_tour

\* C26: a pass whose two cut indices are equal, or whose candidate is
\* rejected, leaves current tour, current cost, best tour and best cost as
\* they were, raises nothing and leaves the call running, and uses up one
\* iteration of the budget: iteration moves on by one, and no call makes
\* more than max_iterations passes.
C26_NoOpPassesConsumeBudget ==
    /\ [](InSolve => executed <= max_iterations)
    /\ [][(IterSkip \/ IterReject) =>
            /\ UNCHANGED << current_tour, current_distance, best_tour,
                            best_distance >>
            /\ pc' = "loop"
            /\ error' = "none"
            /\ iteration' = NextIteration
            /\ iteration' < max_iterations
            /\ executed' = executed + 1]_vars

\* A call on four cities used its whole budget on passes with equal
\* indices: no candidate was ever generated.
C26_Witness ==
    /\ pc = "returned"
    /\ phase = "Exhausted"
    /\ num_cities = 4
    /\ max_iterations = MaxIter
    /\ executed = MaxIter
    /\ neighbor_tour = None
    /\ result = << current_tour, current_distance >>

\* A candidate on four cities, longer than the current tour, was rejected
\* in the second pass.
C26_WitnessRejected ==
    /\ pc = "loop"
    /\ num_cities = 4
    /\ executed = 2
    /\ neighbor_tour # None
    /\ neighbor_tour # current_tour
    /\ current_distance < evaluate_tour_length(neighbor_tour, cities)

\* C27: in every state of solve the recorded best cost is not above the
\* current cost; the current tour may be worse than the best, after an
\* accepted uphill move, never better.
C27_BestNotAboveCurrent ==
    InSolve => best_distance <= current_distance

\* A run on four cities accepted an uphill move in its last pass, at a
\* temperature above zero: the current tour is longer than the best.
C27_Witness ==
    /\ pc = "loop"
    /\ num_cities = 4
    /\ executed = MaxIter
    /\ current_tour = neighbor_tour
    /\ best_distance < current_distance
    /\ FLt(FZero, temperature_at_iteration(schedule, iteration))

\* The step is a pass that generated a candidate at a temperature above
\* zero.
WarmMove == (IterAccept \/ IterReject) /\ FLt(FZero, Temperature)

\* The candidate of the step is the whole current tour reversed.
FullReversal ==
    neighbor_tour' = generate_two_opt_neighbor(current_tour, 0, num_cities - 1)

\* The edges a tour runs over, each as the set of its two cities.
TourEdges(tour) ==
    {{tour[p], tour[(p % Len(tour)) + 1]} : p \in 1..Len(tour)}

\* C28 as claimed: at a temperature above zero the reversal of the whole
\* tour, and every move on at most three cities, replaces the current tour
\* and changes neither the current cost nor the best cost.
C28_ReversalKeepsCosts ==
    [][(WarmMove /\ (num_cities <= 3 \/ FullReversal)) =>
          /\ current_tour' = neighbor_tour'
          /\ current_distance' = current_distance
          /\ best_distance' = best_distance]_vars

\* C28 amended: at a temperature above zero a candidate whose cost equals
\* the current cost is accepted whatever the draw, and the pass that
\* generates one makes it the current tour and leaves current cost, best
\* tour and best cost as they were.  The reversal of the whole tour, and
\* every move on at most three cities, gives a candidate over the same
\* edges as the current tour; its cost is the sum of the same lengths in
\* another order and need not be the same float.
C28_EqualCostAccepted ==
    /\ [](Running /\ FLt(FZero, Temperature) =>
            \A candidate \in Candidates :
                evaluate_tour_length(candidate, cities) = current_distance =>
                    \A m \in metropolis_acceptance(current_distance,
                                current_distance, Temperature, rng) : m.accept)
    /\ [][(/\ Running
            /\ neighbor_tour' # None
            /\ \/ num_cities <= 3
               \/ FullReversal
               \/ evaluate_tour_length(neighbor_tour', cities) = current_distance
            /\ WarmMove) =>
            /\ evaluate_tour_length(neighbor_tour', cities) = current_distance
                 => /\ current_tour' = neighbor_tour'
                    /\ UNCHANGED << current_distance, best_tour, best_distance >>
            /\ (num_cities <= 3 \/ FullReversal)
                 => TourEdges(neighbor_tour') = TourEdges(current_tour)]_vars

\* The first pass of a call on the unit square reversed the whole tour at
\* a temperature above zero: the reversed tour is the current one, at the
\* cost of the first tour, which is still the best.
C28_Witness ==
    /\ pc = "loop"
    /\ num_cities = 4
    /\ executed = 1
    /\ FLt(FZero, temperature_at_iteration(schedule, iteration))
    /\ current_tour = neighbor_tour
    /\ current_tour = Reversed(best_tour)
    /\ current_distance = best_distance


(* --------------------- calls one after the other ---------------------- *)

\* max_iterations of a later call: that of the call before, none, or a
\* negative number.
LaterIterationCounts == {max_iterations, 0, -1}

\* The caller calls solve on the same solver again, with the same schedule
\* and min_temperature; the generator goes on from where the call before
\* left it.
SolveNext ==
    /\ pc \in {"returned", "raised"}
    /\ callsLeft > 0
    /\ prev' = Append(prev, Outcome)
    /\ \E maxit \in LaterIterationCounts :
          Enter(schedule, maxit, min_temperature, rng)

NextRepeat == Next \/ SolveNext

\* random.seed(s) once (line 270), then up to MaxCalls calls of solve.
SpecRepeat == InitSeeded /\ [][NextRepeat]_vars


(* ------------------ claims: calls one after the other ------------------ *)

\* The step enters solve: lines 213-218 have run and the loop is next.
EntersSolve == pc # "loop" /\ pc' = "loop"

\* C29: after every call of solve that returns, the fields best_route and
\* best_cost hold the returned pair; every call starts from a fresh shuffle
\* drawn from the generator, its best so far a copy of that tour, whatever
\* the fields hold from the call before, and leaves the fields alone until
\* it ends.
C29_EachCallStartsAfresh ==
    /\ [](pc = "returned" => result = << best_route, best_cost >>)
    /\ [][EntersSolve =>
            /\ \E s \in Shuffle(Range(num_cities), rng) :
                  /\ current_tour' = s.tour
                  /\ rng' = s.rng
            /\ current_distance' = evaluate_tour_length(current_tour', cities)
            /\ best_tour' = current_tour'
            /\ best_distance' = current_distance'
            /\ UNCHANGED << best_route, best_cost, iterations_performed >>]_vars

\* A second call on the same solver returned a best cost above the one the
\* first call had returned, and the fields hold the second pair.
C29_Witness ==
    /\ pc = "returned"
    /\ Len(prev) = 1
    /\ prev[1].pc = "returned"
    /\ prev[1].best_cost < best_cost
    /\ result = << best_route, best_cost >>
    /\ result # prev[1].result


\* C30: a call of solve with max_iterations <= 0 makes no pass and returns
\* nothing: its best stays the first shuffled tour, the only step it takes
\* stores that tour and its cost in best_route and best_cost and then
\* raises UnboundLocalError at the assignment of iterations_performed,
\* which keeps the value it had.
C30_NoResultWithoutIterations ==
    /\ []((InSolve /\ max_iterations <= 0) =>
            /\ executed = 0
            /\ iteration = Unbound
            /\ neighbor_tour = None
            /\ best_tour = current_tour
            /\ best_distance = evaluate_tour_length(current_tour, cities)
            /\ pc # "returned"
            /\ result = << >>
            /\ pc = "raised" =>
                  /\ error = "UnboundLocalError"
                  /\ best_route = current_tour
                  /\ best_cost = best_distance)
    /\ [][(pc = "loop" /\ max_iterations <= 0) =>
            /\ pc' = "raised"
            /\ best_route' = current_tour
            /\ best_cost' = current_distance
            /\ UNCHANGED << iterations_performed, result, current_tour,
                            rng >>]_vars

\* A first call returned after at least one pass; the second call, with a
\* negative max_iterations, raised: the fields hold its first tour, another
\* one than the first call's best, and iterations_performed still counts
\* the passes of the first call.
C30_Witness ==
    /\ pc = "raised"
    /\ error = "UnboundLocalError"
    /\ max_iterations < 0
    /\ Len(prev) = 1
    /\ prev[1].pc = "returned"
    /\ prev[1].iterations_performed > 0
    /\ iterations_performed = prev[1].iterations_performed
    /\ best_route = current_tour
    /\ best_route # prev[1].best_route
    /\ best_cost # prev[1].best_cost

=============================================================================
